---- MODULE Spec2Model ----
(***************************************************************************)
(* Model of mochi.bedrock.spec (src/python/mochi/bedrock/spec.py):         *)
(* the SpecListDecorator ("Named Identity List"), the entity classes'      *)
(* equality, ArgobotsSpec's pool and xstream lists, and the validate()     *)
(* passes of ProcSpec and ServiceSpec.                                     *)
(*                                                                         *)
(* Entities are objects on a heap: an object is its position in `heap`,    *)
(* so two objects with the same fields are still two objects.  Python      *)
(* indices are kept 0-based in the operations' arguments; TLA+ sequences   *)
(* are 1-based, the conversion is done where a list is touched.            *)
(***************************************************************************)
EXTENDS Integers, Sequences, FiniteSets, TLC

\* ------------------------------------------------------------------ bounds
MaxObj == 4        \* objects ever constructed in one behaviour
MaxLen == 3        \* longest list an operation may produce
MaxEnt == 2        \* entities (AbtIO, Mona, SSG, Provider, Client) in one process
MaxProc == 2       \* processes in one service
MaxPools == 3      \* pools a configuration space allows
MaxXs == 2         \* xstreams a configuration space allows

\* ----------------------------------------------------------- input domains
Names == {"a", "b", "c"}
Kinds == {"fifo_wait", "fifo"}
Types == {"A", "B"}      \* provider / client types

\* ------------------------------------------------------------------- state
VARIABLES
    heap,       \* constructed entities: id -> [cls, name, kind]
    elemType,   \* SpecListDecorator._type
    list,       \* SpecListDecorator._list, a sequence of object ids
    last,       \* the last call made and its outcome
    abt,        \* an ArgobotsSpec: its _pools and _xstreams lists
    proc,       \* a ProcSpec under construction
    svc,        \* a ServiceSpec: its _processes list
    config,     \* a Configuration sampled from a ConfigurationSpace
    reads       \* the keys of the Configuration a resolution has consulted

vars == <<heap, elemType, list, last, abt, proc, svc, config, reads>>

\* ----------------------------------------------------------------- helpers
None == 0

Objects == 1 .. Len(heap)

Range(s) == {s[i] : i \in 1 .. Len(s)}

MinOf(S) == CHOOSE x \in S : \A y \in S : x <= y

\* Python's normalisation of a possibly negative list index.
NormIdx(n, k) == IF k < 0 THEN k + n ELSE k

\* Python's clamping of a slice bound to 0..n.
ClampIdx(n, k) ==
    LET j == NormIdx(n, k)
    IN IF j < 0 THEN 0 ELSE IF j > n THEN n ELSE j

\* list[:i] + mid + list[j:] with 0-based i <= j (slice assignment / deletion).
Splice(l, i, j, mid) == SubSeq(l, 1, i) \o mid \o SubSeq(l, j + 1, Len(l))

\* -------------------------------------------------------- entity equality
\* PoolSpec and XstreamSpec are declared eq=False and define __eq__ by id().
IdentityEqClasses == {"PoolSpec", "XstreamSpec"}

\* The __eq__ attrs generates for a class declared without eq=False:
\* same class and equal fields.
attrs_eq(a, b) == heap[a] = heap[b]

\* a == b as Python evaluates it for two entity objects.
Eq(a, b) ==
    IF heap[a].cls \in IdentityEqClasses THEN a = b ELSE attrs_eq(a, b)

isinstance(o, T) == heap[o].cls = T

\* ------------------------------------------------- SpecListDecorator: reads
\* _find_with_name: the first element with that name, None if there is none.
find_with_name(l, n) ==
    LET hits == {i \in 1 .. Len(l) : heap[l[i]].name = n}
    IN IF hits = {} THEN None ELSE l[MinOf(hits)]

\* list.index(x): 0-based position of the first element equal to x, -1 for
\* the ValueError raised when there is none.
list_index(l, x) ==
    LET hits == {i \in 1 .. Len(l) : Eq(l[i], x)}
    IN IF hits = {} THEN 0 - 1 ELSE MinOf(hits) - 1

\* __getitem__ with a string key.
getitem_str(l, n) ==
    LET match == find_with_name(l, n)
    IN IF match = None THEN [err |-> "KeyError", ret |-> None]
       ELSE [err |-> "ok", ret |-> match]

\* count with an entity argument: list.count, which compares with ==.
count(l, x) == Cardinality({i \in 1 .. Len(l) : Eq(l[i], x)})

\* count with a string argument.
count_str(l, n) == IF find_with_name(l, n) = None THEN 0 ELSE 1

contains(l, x) == count(l, x) > 0

contains_str(l, n) == count_str(l, n) > 0

\* ---------------------------------------------- SpecListDecorator: mutators
\* Each operator is one method: it returns the list the call leaves behind
\* and the exception it raises ("ok" when it returns normally).
Res(l, e) == [list |-> l, err |-> e]

DupNames(batch) ==
    Cardinality({heap[batch[i]].name : i \in 1 .. Len(batch)}) # Len(batch)

\* __setitem__ rejecting every entity whose name is present, the member it
\* would replace included.
setitem_int_strict(l, T, key, spec) ==
    IF ~isinstance(spec, T) THEN Res(l, "TypeError")
    ELSE IF find_with_name(l, heap[spec].name) # None THEN Res(l, "NameError")
    ELSE LET k == NormIdx(Len(l), key)
         IN IF k < 0 \/ k >= Len(l) THEN Res(l, "IndexError")
            ELSE Res([l EXCEPT ![k + 1] = spec], "ok")

\* __setitem__ with an integer key.  The range test builds a KeyError and
\* does not raise it, so an out-of-range key reaches list.__setitem__, which
\* raises IndexError; a negative key in range is accepted by the list.
setitem_int(l, T, key, spec) ==
    IF ~isinstance(spec, T) THEN Res(l, "TypeError")
    ELSE LET match == find_with_name(l, heap[spec].name)
         IN IF match # None /\ list_index(l, match) # key
            THEN Res(l, "NameError")
            ELSE LET k == NormIdx(Len(l), key)
                 IN IF k < 0 \/ k >= Len(l) THEN Res(l, "IndexError")
                    ELSE Res([l EXCEPT ![k + 1] = spec], "ok")

\* __setitem__ with a slice key lo:hi and a list value.  After the slice is
\* assigned the method runs on into the checks meant for an integer key, and
\* isinstance(spec, self._type) is false of a list: TypeError is raised with
\* the assignment already made.
setitem_slice(l, T, lo, hi, batch) ==
    IF \E i \in 1 .. Len(batch) : heap[batch[i]].cls # T THEN Res(l, "TypeError")
    ELSE IF DupNames(batch) THEN Res(l, "ValueError")
    ELSE IF \E i \in 1 .. Len(batch) : find_with_name(l, heap[batch[i]].name) # None
         THEN Res(l, "NameError")
    ELSE LET i == ClampIdx(Len(l), lo)
             j == ClampIdx(Len(l), hi)
         IN Res(Splice(l, i, IF j < i THEN i ELSE j, batch), "TypeError")

\* __delitem__ with an integer key.
delitem_int(l, key) ==
    LET k == NormIdx(Len(l), key)
    IN IF k < 0 \/ k >= Len(l) THEN Res(l, "IndexError")
       ELSE Res(Splice(l, k, k + 1, <<>>), "ok")

\* __delitem__ with a slice key lo:hi.
delitem_slice(l, lo, hi) ==
    LET i == ClampIdx(Len(l), lo)
        j == ClampIdx(Len(l), hi)
    IN Res(Splice(l, i, IF j < i THEN i ELSE j, <<>>), "ok")

\* __delitem__ by name deleting the first position instead of the match's.
delitem_str_front(l, n) ==
    IF find_with_name(l, n) = None THEN Res(l, "KeyError")
    ELSE Res(Splice(l, 0, 1, <<>>), "ok")

\* __delitem__ with a string key.
delitem_str(l, n) ==
    LET match == find_with_name(l, n)
    IN IF match = None THEN Res(l, "KeyError")
       ELSE LET index == list_index(l, match)
            IN Res(Splice(l, index, index + 1, <<>>), "ok")

\* append without the name check.
append_unchecked(l, T, spec) ==
    IF ~isinstance(spec, T) THEN Res(l, "TypeError") ELSE Res(Append(l, spec), "ok")

append(l, T, spec) ==
    IF ~isinstance(spec, T) THEN Res(l, "TypeError")
    ELSE IF find_with_name(l, heap[spec].name) # None THEN Res(l, "NameError")
    ELSE Res(Append(l, spec), "ok")

clear(l) == Res(<<>>, "ok")

\* extend appending one element after the other until one is refused.
RECURSIVE extend_partial(_, _, _)
extend_partial(l, T, to_add) ==
    IF to_add = <<>> THEN Res(l, "ok")
    ELSE IF heap[Head(to_add)].cls # T THEN Res(l, "TypeError")
    ELSE IF find_with_name(l, heap[Head(to_add)].name) # None THEN Res(l, "NameError")
    ELSE extend_partial(Append(l, Head(to_add)), T, Tail(to_add))

extend(l, T, to_add) ==
    IF \E i \in 1 .. Len(to_add) : heap[to_add[i]].cls # T THEN Res(l, "TypeError")
    ELSE IF DupNames(to_add) THEN Res(l, "ValueError")
    ELSE IF \E i \in 1 .. Len(to_add) : find_with_name(l, heap[to_add[i]].name) # None
         THEN Res(l, "NameError")
    ELSE Res(l \o to_add, "ok")

\* insert ignoring the index.
insert_at_end(l, T, index, spec) ==
    IF ~isinstance(spec, T) THEN Res(l, "TypeError")
    ELSE IF find_with_name(l, heap[spec].name) # None THEN Res(l, "NameError")
    ELSE Res(Append(l, spec), "ok")

\* insert: list.insert clamps the index to 0..len.
insert(l, T, index, spec) ==
    IF ~isinstance(spec, T) THEN Res(l, "TypeError")
    ELSE IF find_with_name(l, heap[spec].name) # None THEN Res(l, "NameError")
    ELSE LET i == ClampIdx(Len(l), index)
         IN Res(Splice(l, i, i, <<spec>>), "ok")

pop(l, index) ==
    LET k == NormIdx(Len(l), index)
    IN IF k < 0 \/ k >= Len(l) THEN Res(l, "IndexError")
       ELSE Res(Splice(l, k, k + 1, <<>>), "ok")

\* remove with an entity argument: list.remove, the first element == spec.
remove(l, spec) ==
    LET k == list_index(l, spec)
    IN IF k < 0 THEN Res(l, "ValueError")
       ELSE Res(Splice(l, k, k + 1, <<>>), "ok")

\* remove with a string argument.
remove_str(l, n) ==
    LET match == find_with_name(l, n)
    IN IF match = None THEN Res(l, "ValueError") ELSE remove(l, match)

\* ------------------------------------------------- the list's state machine
\* The record of the last call: the method, its arguments (the ones it does
\* not take are left at their defaults) and the exception it raised.
Call(op, key, ent, nm, batch, err) ==
    [op |-> op, key |-> key, ent |-> ent, nm |-> nm, batch |-> batch, err |-> err]

OtherType(T) == IF T = "PoolSpec" THEN "AbtIOSpec" ELSE "PoolSpec"

Obj(c, n, k) == [cls |-> c, name |-> n, kind |-> k]

\* The entities the caller has constructed before the list is used: two of
\* the element type, and one of another type.  add() constructs the others.
InitHeap(T) ==
    << Obj(T, "a", "fifo_wait"), Obj(T, "b", "fifo_wait"),
       Obj(OtherType(T), "c", "fifo_wait") >>

\* The batches handed to extend and to a slice assignment: no, one or two
\* entities, the same one twice included.
Batches ==
    {<<>>} \cup {<<x>> : x \in Objects} \cup {<<x, y>> : x \in Objects, y \in Objects}

\* Integer keys: every index of the list, negative ones, and one beyond
\* either end.
Keys(l) == (0 - (Len(l) + 1)) .. (Len(l) + 1)

\* Slice bounds lo <= hi; a bound beyond the end behaves as the end, and
\* hi < lo as hi = lo.
Bounds(l) == 0 .. Len(l)

\* What the variables of the other state machines hold while one runs.
NoAbt == [pools |-> <<>>, xstreams |-> <<>>]

NoProc == <<>>

NoSvc == <<>>

NoConfig == <<>>

Init ==
    /\ elemType \in {"PoolSpec", "AbtIOSpec"}
    /\ heap = InitHeap(elemType)
    /\ list = <<>>
    /\ last = Call("init", 0, None, "", <<>>, "ok")
    /\ abt = NoAbt
    /\ proc = NoProc
    /\ svc = NoSvc
    /\ config = NoConfig
    /\ reads = {}

\* Apply the outcome r of a method to the list.
Apply(r, call) ==
    /\ Len(r.list) <= MaxLen
    /\ list' = r.list
    /\ last' = call
    /\ UNCHANGED <<heap, elemType, abt, proc, svc, config, reads>>

SetItem ==
    \E key \in Keys(list), spec \in Objects :
        LET r == setitem_int(list, elemType, key, spec)
        IN Apply(r, Call("setitem", key, spec, "", <<>>, r.err))

SetSlice ==
    \E lo \in Bounds(list), hi \in Bounds(list), batch \in Batches :
        /\ lo <= hi
        /\ LET r == setitem_slice(list, elemType, lo, hi, batch)
           IN Apply(r, Call("setslice", 0, None, "", batch, r.err))

DelItem ==
    \E key \in Keys(list) :
        LET r == delitem_int(list, key)
        IN Apply(r, Call("delitem", key, None, "", <<>>, r.err))

DelSlice ==
    \E lo \in Bounds(list), hi \in Bounds(list) :
        /\ lo <= hi
        /\ LET r == delitem_slice(list, lo, hi)
           IN Apply(r, Call("delslice", 0, None, "", <<>>, r.err))

DelName ==
    \E n \in Names :
        LET r == delitem_str(list, n)
        IN Apply(r, Call("delname", 0, None, n, <<>>, r.err))

AppendOp ==
    \E spec \in Objects :
        LET r == append(list, elemType, spec)
        IN Apply(r, Call("append", 0, spec, "", <<>>, r.err))

InsertOp ==
    \E index \in Keys(list), spec \in Objects :
        LET r == insert(list, elemType, index, spec)
        IN Apply(r, Call("insert", index, spec, "", <<>>, r.err))

ExtendOp ==
    \E to_add \in Batches :
        LET r == extend(list, elemType, to_add)
        IN Apply(r, Call("extend", 0, None, "", to_add, r.err))

PopOp ==
    \E index \in Keys(list) :
        LET r == pop(list, index)
        IN Apply(r, Call("pop", index, None, "", <<>>, r.err))

RemoveOp ==
    \E spec \in Objects :
        LET r == remove(list, spec)
        IN Apply(r, Call("remove", 0, spec, "", <<>>, r.err))

RemoveName ==
    \E n \in Names :
        LET r == remove_str(list, n)
        IN Apply(r, Call("removename", 0, None, n, <<>>, r.err))

ClearOp ==
    LET r == clear(list)
    IN Apply(r, Call("clear", 0, None, "", <<>>, r.err))

\* add(name=n): construct an element of the list's type (its other fields
\* at their defaults), append it, return it.  When append raises, the new
\* object is dropped with the exception and nothing refers to it.
AddOp ==
    \E n \in Names :
        /\ Len(heap) < MaxObj
        /\ LET obj  == Len(heap) + 1
               hp   == Append(heap, Obj(elemType, n, "fifo_wait"))
               r    == IF find_with_name(list, n) # None
                       THEN Res(list, "NameError")
                       ELSE Res(Append(list, obj), "ok")
           IN /\ Len(r.list) <= MaxLen
              /\ list' = r.list
              /\ heap' = IF r.err = "ok" THEN hp ELSE heap
              /\ last' = Call("add", 0, IF r.err = "ok" THEN obj ELSE None,
                              n, <<>>, r.err)
              /\ UNCHANGED <<elemType, abt, proc, svc, config, reads>>

\* Assignment to a mutable field of an entity the caller holds (pool.kind = k;
\* for an AbtIOSpec the field stands for its config).
SetKind ==
    \E o \in Objects, k \in Kinds :
        /\ heap[o].kind # k
        /\ heap' = [heap EXCEPT ![o].kind = k]
        /\ last' = Call("setkind", 0, o, k, <<>>, "ok")
        /\ UNCHANGED <<list, elemType, abt, proc, svc, config, reads>>

Next ==
    \/ SetItem \/ SetSlice \/ DelItem \/ DelSlice \/ DelName
    \/ AppendOp \/ InsertOp \/ ExtendOp \/ PopOp
    \/ RemoveOp \/ RemoveName \/ ClearOp \/ AddOp

Spec == Init /\ [][Next]_vars

\* The same list with the entities' mutable field in play: the caller keeps
\* the objects it handed to the list and assigns to them.
NextAlias == AppendOp \/ InsertOp \/ AddOp \/ RemoveOp \/ SetKind

SpecAlias == Init /\ [][NextAlias]_vars

\* ===================================================== Named Identity List
NameOf(o) == heap[o].name

Named(l, n) == {i \in 1 .. Len(l) : NameOf(l[i]) = n}

Without(l, o) == SelectSeq(l, LAMBDA x : x # o)

\* C1: in every reachable state of the list, whatever calls succeeded or
\* failed, no two members have the same name and no entity is at two
\* positions; count(x) is 0 or 1 and contains(x) holds exactly when
\* count(x) = 1, for x an entity or a name.
C1_NameUnique ==
    /\ \A i, j \in 1 .. Len(list) :
          i # j => NameOf(list[i]) # NameOf(list[j]) /\ list[i] # list[j]
    /\ \A x \in Objects :
          /\ count(list, x) \in {0, 1}
          /\ contains(list, x) <=> count(list, x) = 1
    /\ \A n \in Names :
          /\ count_str(list, n) \in {0, 1}
          /\ contains_str(list, n) <=> count_str(list, n) = 1
          /\ count_str(list, n) = Cardinality(Named(list, n))

\* A call refused for a name conflict on a list of two or more members.
C1_Witness ==
    /\ Len(list) >= 2
    /\ last.err = "NameError"
    /\ last.op \in {"append", "insert", "setitem", "extend", "setslice", "add"}

\* What the claim calls a bad batch.
BadBatch(l, T, b) ==
    \/ \E i \in 1 .. Len(b) : heap[b[i]].cls # T
    \/ \E i, j \in 1 .. Len(b) : i # j /\ NameOf(b[i]) = NameOf(b[j])
    \/ \E i \in 1 .. Len(b) : Named(l, NameOf(b[i])) # {}

\* C2: extend either appends the whole batch in batch order, or, for a
\* batch with a wrong type, a name twice, or the name of a member, raises
\* TypeError / ValueError / NameError and leaves the list as it was; append
\* of an entity whose name is present raises and leaves the list as it was
\* (NameError when the entity has the list's type).
C2_ExtendAtomic ==
    [][ /\ last'.op = "extend" =>
             IF BadBatch(list, elemType, last'.batch)
             THEN /\ last'.err \in {"TypeError", "ValueError", "NameError"}
                  /\ list' = list
             ELSE /\ last'.err = "ok"
                  /\ list' = list \o last'.batch
        /\ (last'.op = "append" /\ Named(list, NameOf(last'.ent)) # {}) =>
             /\ list' = list
             /\ last'.err = IF heap[last'.ent].cls = elemType
                            THEN "NameError" ELSE "TypeError"
      ]_vars

\* extend refused for its second entity, the first one being acceptable.
C2_Witness ==
    /\ last.op = "extend"
    /\ last.err = "NameError"
    /\ Len(last.batch) = 2
    /\ Named(list, NameOf(last.batch[1])) = {}
    /\ Named(list, NameOf(last.batch[2])) # {}

\* C3: set(key, entity) with 0 <= key < len raises TypeError for an entity
\* of another type, raises NameError exactly when a member at another
\* position has the entity's name, and otherwise replaces the member at
\* that position and nothing else.
C3_SetItem ==
    [][ (last'.op = "setitem" /\ last'.key >= 0 /\ last'.key < Len(list)) =>
            LET e == last'.ent
                k == last'.key + 1
            IN IF heap[e].cls # elemType
               THEN last'.err = "TypeError" /\ list' = list
               ELSE IF Named(list, NameOf(e)) \ {k} # {}
               THEN last'.err = "NameError" /\ list' = list
               ELSE last'.err = "ok" /\ list' = [list EXCEPT ![k] = e]
      ]_vars

\* A member replaced by another object of the same name.
C3_Witness ==
    /\ last.op = "setitem"
    /\ last.err = "ok"
    /\ last.key >= 0
    /\ last.key < Len(list)
    /\ last.ent > Len(InitHeap(elemType))
    /\ NameOf(last.ent) \in {"a", "b"}
    /\ list[last.key + 1] = last.ent

\* C4 (lookup): a string key yields the one member of that name, KeyError
\* when there is none.
LookupByName ==
    \A n \in Names :
        LET r == getitem_str(list, n)
        IN IF Named(list, n) = {}
           THEN r.err = "KeyError"
           ELSE /\ r.err = "ok"
                /\ NameOf(r.ret) = n
                /\ {i \in 1 .. Len(list) : list[i] = r.ret} = Named(list, n)
                /\ Cardinality(Named(list, n)) = 1

\* C4: lookup by name returns the unique member of that name (the entity
\* add(name=...) just created, for one) and raises KeyError when there is
\* none; delete by name removes that member and keeps the others in order,
\* and raises KeyError, the list unchanged, when there is none.
C4_ByName ==
    /\ []LookupByName
    /\ [][ /\ (last'.op = "add" /\ last'.err = "ok") =>
                 (getitem_str(list, last.nm).ret = last.ent)'
           /\ last'.op = "delname" =>
                 IF Named(list, last'.nm) = {}
                 THEN last'.err = "KeyError" /\ list' = list
                 ELSE /\ last'.err = "ok"
                      /\ Len(list') = Len(list) - 1
                      /\ Named(list', last'.nm) = {}
                      /\ list' = SelectSeq(list, LAMBDA x : NameOf(x) # last'.nm)
         ]_vars

\* A member that is not the first one deleted by its name.
C4_Witness ==
    /\ last.op = "delname"
    /\ last.err = "ok"
    /\ Len(list) >= 1
    /\ \E o \in Objects : NameOf(o) = last.nm /\ o \notin Range(list)
    /\ last.nm = "b"
    /\ list[1] = 1

\* Where list.insert(i, e) puts e in a list of n elements.
InsertPos(n, i) ==
    IF i >= n THEN n ELSE IF i >= 0 THEN i ELSE IF n + i >= 0 THEN n + i ELSE 0

\* The frame of a successful append / insert: the other members keep their
\* order, and the stored element is the object passed in, so an assignment
\* to that object's field is read back through the list.
InsertFrame ==
    /\ (last'.op \in {"append", "insert"} /\ last'.err = "ok") =>
          /\ last'.ent \notin Range(list)
          /\ Without(list', last'.ent) = list
          /\ Cardinality({i \in 1 .. Len(list') : list'[i] = last'.ent}) = 1
    /\ (last'.op = "append" /\ last'.err = "ok") =>
          list'[Len(list')] = last'.ent
    /\ last'.op = "setkind" =>
          \A i \in 1 .. Len(list) :
              list[i] = last'.ent => heap'[list'[i]].kind = last'.nm

\* C5 as stated: a successful insert(i, e) places e at position i (read as
\* Python reads an index of the resulting list, a negative one from the end).
C5_InsertAtIndex ==
    [][ /\ InsertFrame
        /\ (last'.op = "insert" /\ last'.err = "ok") =>
              LET k == NormIdx(Len(list'), last'.key)
              IN /\ k + 1 \in DOMAIN list'
                 /\ list'[k + 1] = last'.ent
      ]_vars

\* C5 (amended): a successful append(e) places e at the end and a
\* successful insert(i, e) places it at position i when 0 <= i <= len, at
\* the end when i > len, and at max(len + i, 0) when i < 0; the members
\* already present keep their relative order, and the stored element is
\* the object passed in, not a copy.
C5_InsertClamped ==
    [][ /\ InsertFrame
        /\ (last'.op = "insert" /\ last'.err = "ok") =>
              list'[InsertPos(Len(list), last'.key) + 1] = last'.ent
      ]_vars

\* An insert between two members, of an object whose field was assigned to.
C5_Witness ==
    /\ last.op = "insert"
    /\ last.err = "ok"
    /\ last.key = 1
    /\ Len(list) = 3
    /\ list[2] = last.ent
    /\ heap[list[2]].kind = "fifo"

\* C6: an entity of an identity-typed kind is equal only to itself, so
\* contains, count, index and remove by entity never match another object
\* that has the same fields.
C6_IdentityEquality ==
    /\ \A x, y \in Objects : Eq(x, y) => x = y
    /\ \A x \in Objects :
          /\ contains(list, x) <=> x \in Range(list)
          /\ count(list, x) = Cardinality({i \in 1 .. Len(list) : list[i] = x})
          /\ list_index(list, x) >= 0 => list[list_index(list, x) + 1] = x
          /\ remove(list, x).err = "ok" =>
                x \in Range(list) /\ remove(list, x).list = Without(list, x)

\* ============================================================ ArgobotsSpec
\* An XstreamSpec object: its scheduler's type and list of pools.
XObj(n, ps) == [cls |-> "XstreamSpec", name |-> n, kind |-> "basic_wait", pools |-> ps]

\* _default_pools_list and _default_xstreams_list: one pool and one xstream
\* named __primary__, the xstream scheduling on that pool.  A third object
\* is a pool the caller constructed and has not added.
AbtHeap ==
    << Obj("PoolSpec", "__primary__", "fifo_wait"), XObj("__primary__", <<1>>),
       Obj("PoolSpec", "a", "fifo_wait") >>

DefaultAbt == [pools |-> <<1>>, xstreams |-> <<2>>]

InitAbt ==
    /\ heap = AbtHeap
    /\ abt = DefaultAbt
    /\ last = Call("init", 0, None, "", <<>>, "ok")
    /\ elemType = "PoolSpec"
    /\ list = <<>>
    /\ proc = NoProc
    /\ svc = NoSvc
    /\ config = NoConfig
    /\ reads = {}

\* The properties pools and xstreams: a SpecListDecorator over _pools with
\* type PoolSpec, and one over _xstreams with type XstreamSpec.
AbtLists == {"pools", "xstreams"}

AbtType(w) == IF w = "pools" THEN "PoolSpec" ELSE "XstreamSpec"

PoolObjects == {o \in Objects : heap[o].cls = "PoolSpec"}

\* The names the caller gives the pools and xstreams it adds.
AbtNames == {"a", "b"}

\* Apply the outcome r of a method of the decorated list w.
AbtApply(w, r, call) ==
    /\ Len(r.list) <= MaxLen
    /\ abt' = [abt EXCEPT ![w] = r.list]
    /\ last' = call
    /\ UNCHANGED <<heap, elemType, list, proc, svc, config, reads>>

\* abt.pools.add(name=n): a new PoolSpec appended to _pools.
AbtAddPool ==
    \E n \in AbtNames :
        /\ Len(heap) < MaxObj
        /\ LET ok == find_with_name(abt.pools, n) = None
           IN /\ ok => Len(abt.pools) < MaxLen
              /\ heap' = IF ok THEN Append(heap, Obj("PoolSpec", n, "fifo_wait")) ELSE heap
              /\ abt' = IF ok THEN [abt EXCEPT !.pools = Append(@, Len(heap) + 1)] ELSE abt
              /\ last' = Call("pools.add", 0, None, "pools", <<>>,
                              IF ok THEN "ok" ELSE "NameError")
              /\ UNCHANGED <<elemType, list, proc, svc, config, reads>>

\* abt.xstreams.add(name=n, scheduler=SchedulerSpec(pools=[p])): a new
\* XstreamSpec appended to _xstreams.  The scheduler's validator asks for a
\* non-empty list of PoolSpec objects and nothing else.
AbtAddXstream ==
    \E n \in AbtNames, p \in PoolObjects :
        /\ Len(heap) < MaxObj
        /\ LET ok == find_with_name(abt.xstreams, n) = None
           IN /\ ok => Len(abt.xstreams) < MaxLen
              /\ heap' = IF ok THEN Append(heap, XObj(n, <<p>>)) ELSE heap
              /\ abt' = IF ok THEN [abt EXCEPT !.xstreams = Append(@, Len(heap) + 1)] ELSE abt
              /\ last' = Call("xstreams.add", 0, None, "xstreams", <<>>,
                              IF ok THEN "ok" ELSE "NameError")
              /\ UNCHANGED <<elemType, list, proc, svc, config, reads>>

\* ArgobotsSpec.add(thing): append to the list of the thing's type.
AbtAdd ==
    \E thing \in Objects :
        LET w == IF isinstance(thing, "PoolSpec") THEN "pools" ELSE "xstreams"
            r == append(abt[w], AbtType(w), thing)
        IN AbtApply(w, r, Call("add", 0, None, w, <<>>, r.err))

AbtAppend ==
    \E w \in AbtLists, spec \in Objects :
        LET r == append(abt[w], AbtType(w), spec)
        IN AbtApply(w, r, Call("append", 0, None, w, <<>>, r.err))

AbtInsert ==
    \E w \in AbtLists, spec \in Objects : \E index \in Keys(abt[w]) :
        LET r == insert(abt[w], AbtType(w), index, spec)
        IN AbtApply(w, r, Call("insert", 0, None, w, <<>>, r.err))

AbtSetItem ==
    \E w \in AbtLists, spec \in Objects : \E key \in Keys(abt[w]) :
        LET r == setitem_int(abt[w], AbtType(w), key, spec)
        IN AbtApply(w, r, Call("setitem", 0, None, w, <<>>, r.err))

AbtDelItem ==
    \E w \in AbtLists : \E key \in Keys(abt[w]) :
        LET r == delitem_int(abt[w], key)
        IN AbtApply(w, r, Call("delitem", 0, None, w, <<>>, r.err))

AbtDelName ==
    \E w \in AbtLists, n \in Names \cup {"__primary__"} :
        LET r == delitem_str(abt[w], n)
        IN AbtApply(w, r, Call("delname", 0, None, w, <<>>, r.err))

AbtRemove ==
    \E w \in AbtLists, spec \in Objects :
        LET r == remove(abt[w], spec)
        IN AbtApply(w, r, Call("remove", 0, None, w, <<>>, r.err))

AbtPop ==
    \E w \in AbtLists : \E index \in Keys(abt[w]) :
        LET r == pop(abt[w], index)
        IN AbtApply(w, r, Call("pop", 0, None, w, <<>>, r.err))

AbtClear ==
    \E w \in AbtLists :
        LET r == clear(abt[w])
        IN AbtApply(w, r, Call("clear", 0, None, w, <<>>, r.err))

NextAbt ==
    \/ AbtDelItem \/ AbtDelName \/ AbtRemove \/ AbtPop \/ AbtClear
    \/ AbtAddPool \/ AbtAddXstream \/ AbtAdd \/ AbtAppend \/ AbtInsert
    \/ AbtSetItem

SpecAbt == InitAbt /\ [][NextAbt]_vars

\* `x in some_list` for a plain Python list: some element == x.
py_in(x, l) == \E i \in 1 .. Len(l) : Eq(l[i], x)

\* ArgobotsSpec.validate: at least one xstream, every pool of every
\* xstream's scheduler in _pools.  (The fields' own validators hold of
\* every object the model constructs.)
abt_validate(a) ==
    IF Len(a.xstreams) = 0 THEN "ValueError"
    ELSE IF \E i \in 1 .. Len(a.xstreams) :
               \/ Len(heap[a.xstreams[i]].pools) = 0
               \/ \E j \in 1 .. Len(heap[a.xstreams[i]].pools) :
                     ~py_in(heap[a.xstreams[i]].pools[j], a.pools)
         THEN "ValueError"
    ELSE "ok"

\* C7: in every state reached through the guarded operations of an
\* Argobots's pool list and xstream list, every pool in the scheduler of an
\* owned xstream is a member, as the same object, of the pool list; removing
\* a pool that an xstream still schedules is refused.
C7_SchedulerPoolsOwned ==
    \A i \in 1 .. Len(abt.xstreams) :
        \A j \in 1 .. Len(heap[abt.xstreams[i]].pools) :
            heap[abt.xstreams[i]].pools[j] \in Range(abt.pools)

\* ================================================================ ProcSpec
\* A ProcSpec: margo.argobots is the variable abt; proc holds the rest.
\* abt_io, mona and ssg entries are [name, pool], providers are
\* [name, type, pool, deps], clients are [name, type]; libraries is the set
\* of keys of the registry.
ProcLists == {"abt_io", "mona", "ssg"}

\* ProcSpec(margo=MargoSpec(mercury=...)): progress_pool and rpc_pool
\* default to argobots.pools[0], bedrock.pool to margo.rpc_pool, the lists
\* and the registry are empty.
DefaultProc(a) ==
    [progress_pool |-> a.pools[1], rpc_pool |-> a.pools[1],
     abt_io |-> <<>>, mona |-> <<>>, ssg |-> <<>>,
     libraries |-> {}, providers |-> <<>>, clients |-> <<>>,
     bedrock |-> a.pools[1]]

InitProc ==
    /\ heap = AbtHeap
    /\ abt = DefaultAbt
    /\ proc = DefaultProc(DefaultAbt)
    /\ last = Call("init", 0, None, "", <<>>, "ok")
    /\ elemType = "PoolSpec"
    /\ list = <<>>
    /\ svc = NoSvc
    /\ config = NoConfig
    /\ reads = {}

NumEnt(pr) ==
    Len(pr.abt_io) + Len(pr.mona) + Len(pr.ssg) + Len(pr.providers) + Len(pr.clients)

\* The name the caller gives the next entity of a list: one no member has.
FreshName(l) == CHOOSE n \in Names : \A i \in 1 .. Len(l) : l[i].name # n

\* margo.progress_pool = p / margo.rpc_pool = p: the validator asks for a
\* PoolSpec.
ProcSetMargoPool ==
    \E f \in {"progress_pool", "rpc_pool"}, p \in PoolObjects :
        /\ proc[f] # p
        /\ proc' = [proc EXCEPT ![f] = p]
        /\ last' = Call("margo.setpool", 0, None, "", <<>>, "ok")
        /\ UNCHANGED <<heap, elemType, list, abt, svc, config, reads>>

\* xstream.scheduler = SchedulerSpec(pools=[p]) on the primary xstream: the
\* validators ask for a SchedulerSpec over a non-empty list of PoolSpec.
ProcSetScheduler ==
    \E p \in PoolObjects :
        /\ heap[abt.xstreams[1]].pools # <<p>>
        /\ heap' = [heap EXCEPT ![abt.xstreams[1]].pools = <<p>>]
        /\ last' = Call("scheduler.set", 0, None, "", <<>>, "ok")
        /\ UNCHANGED <<elemType, list, abt, proc, svc, config, reads>>

\* proc.abt_io.add(name=, pool=p), and the same for mona and ssg.
ProcAddInstance ==
    \E w \in ProcLists, p \in PoolObjects :
        /\ NumEnt(proc) < MaxEnt
        /\ proc' = [proc EXCEPT ![w] = Append(@, [name |-> FreshName(proc[w]), pool |-> p])]
        /\ last' = Call("add", 0, None, "", <<>>, "ok")
        /\ UNCHANGED <<heap, elemType, list, abt, svc, config, reads>>

\* proc.providers.add(name=, type=t, pool=p).
ProcAddProvider ==
    \E t \in Types, p \in PoolObjects :
        /\ NumEnt(proc) < MaxEnt
        /\ proc' = [proc EXCEPT !.providers =
                       Append(@, [name |-> FreshName(proc.providers), type |-> t,
                                  pool |-> p, deps |-> <<>>])]
        /\ last' = Call("providers.add", 0, None, "", <<>>, "ok")
        /\ UNCHANGED <<heap, elemType, list, abt, svc, config, reads>>

\* proc.clients.add(name=, type=t).
ProcAddClient ==
    \E t \in Types :
        /\ NumEnt(proc) < MaxEnt
        /\ proc' = [proc EXCEPT !.clients =
                       Append(@, [name |-> FreshName(proc.clients), type |-> t])]
        /\ last' = Call("clients.add", 0, None, "", <<>>, "ok")
        /\ UNCHANGED <<heap, elemType, list, abt, svc, config, reads>>

\* proc.libraries[t] = path.
ProcAddLibrary ==
    \E t \in Types :
        /\ t \notin proc.libraries
        /\ proc' = [proc EXCEPT !.libraries = @ \cup {t}]
        /\ last' = Call("libraries.set", 0, None, "", <<>>, "ok")
        /\ UNCHANGED <<heap, elemType, list, abt, svc, config, reads>>

\* ProcSpec.validate.  It does not call margo.validate().  The loops over
\* _providers and _clients read self._libraries, an attribute ProcSpec does
\* not have (the field is libraries): AttributeError on the first element.
\* Registry keys and values are strings in the model, so the TypeError
\* branch is not taken.
proc_validate(pr, a) ==
    IF \E i \in 1 .. Len(pr.abt_io) : ~contains(a.pools, pr.abt_io[i].pool)
    THEN "ValueError"
    ELSE IF \E i \in 1 .. Len(pr.mona) : ~contains(a.pools, pr.mona[i].pool)
    THEN "ValueError"
    ELSE IF \E i \in 1 .. Len(pr.ssg) : ~contains(a.pools, pr.ssg[i].pool)
    THEN "ValueError"
    ELSE IF Len(pr.providers) > 0 THEN "AttributeError"
    ELSE IF Len(pr.clients) > 0 THEN "AttributeError"
    ELSE "ok"

\* proc.validate()
ProcValidate ==
    /\ last' = Call("validate", 0, None, "", <<>>, proc_validate(proc, abt))
    /\ UNCHANGED <<heap, elemType, list, abt, proc, svc, config, reads>>

NextProc ==
    \/ ProcSetMargoPool \/ ProcSetScheduler \/ ProcAddInstance \/ ProcAddProvider
    \/ ProcAddClient \/ ProcAddLibrary \/ ProcValidate

SpecProc == InitProc /\ [][NextProc]_vars

\* The pool references of a process's subtree.
PoolRefs(pr, a) ==
    UNION {Range(heap[a.xstreams[i]].pools) : i \in 1 .. Len(a.xstreams)}
    \cup {pr.progress_pool, pr.rpc_pool}
    \cup {pr.abt_io[i].pool : i \in 1 .. Len(pr.abt_io)}
    \cup {pr.mona[i].pool : i \in 1 .. Len(pr.mona)}
    \cup {pr.ssg[i].pool : i \in 1 .. Len(pr.ssg)}
    \cup {pr.providers[i].pool : i \in 1 .. Len(pr.providers)}

TypesUsed(pr) ==
    {pr.providers[i].type : i \in 1 .. Len(pr.providers)}
    \cup {pr.clients[i].type : i \in 1 .. Len(pr.clients)}

\* C8: validate() on a Process fails whenever a pool reference of its
\* subtree (a scheduler's pools, Margo's progress_pool or rpc_pool, the pool
\* of an AbtIO, Mona, SSG or Provider) is not a member of the Process's own
\* Argobots pool list.
C8_ValidateRejectsForeignPool ==
    (last.op = "validate" /\ ~(PoolRefs(proc, abt) \subseteq Range(abt.pools)))
        => last.err # "ok"

\* C9: validate() on a Process whose pool references all resolve passes
\* when every Provider's and Client's type is a key of the library registry
\* and fails when one is not.
C9_ValidateChecksLibraries ==
    (last.op = "validate" /\ PoolRefs(proc, abt) \subseteq Range(abt.pools))
        => (last.err = "ok" <=> TypesUsed(proc) \subseteq proc.libraries)

\* ============================================================= ServiceSpec
\* Strings that are taken apart are sequences of characters.
Digits == {"0", "1", "2", "3", "4", "5", "6", "7", "8", "9"}

DigitVal(c) ==
    CASE c = "0" -> 0 [] c = "1" -> 1 [] c = "2" -> 2 [] c = "3" -> 3 [] c = "4" -> 4
      [] c = "5" -> 5 [] c = "6" -> 6 [] c = "7" -> 7 [] c = "8" -> 8 [] c = "9" -> 9

\* str.split('@')
RECURSIVE split_at(_)
split_at(str) ==
    IF \A i \in 1 .. Len(str) : str[i] # "@" THEN <<str>>
    ELSE LET k == MinOf({i \in 1 .. Len(str) : str[i] = "@"})
         IN <<SubSeq(str, 1, k - 1)>> \o split_at(SubSeq(str, k + 1, Len(str)))

\* str.isnumeric()
isnumeric(str) == Len(str) > 0 /\ \A i \in 1 .. Len(str) : str[i] \in Digits

\* int(str) of a string of digits
RECURSIVE py_int(_)
py_int(str) ==
    IF Len(str) = 0 THEN 0
    ELSE 10 * py_int(SubSeq(str, 1, Len(str) - 1)) + DigitVal(str[Len(str)])

\* int(b) of a bool
py_int_bool(b) == IF b THEN 1 ELSE 0

\* A dependency value is a string or a list of strings:
\* [list |-> FALSE, items |-> <<str>>] or [list |-> TRUE, items |-> strs].
StrDep(str) == [list |-> FALSE, items |-> <<str>>]

ListDep(strs) == [list |-> TRUE, items |-> strs]

\* '@' in value: a substring test on a string, a membership test on a list.
at_in(value) ==
    IF value.list THEN \E i \in 1 .. Len(value.items) : value.items[i] = <<"@">>
    ELSE \E i \in 1 .. Len(value.items[1]) : value.items[1][i] = "@"

\* check_provider_dependency(dep), nested in ServiceSpec.validate: it tests
\* '@' in value, the caller's loop variable, not in dep, and its rank is
\* int(<bool>), the integer of the isnumeric() result.
check_provider_dependency(dep, value, nprocs) ==
    IF ~at_in(value) THEN "ok"
    ELSE IF Len(split_at(dep)) < 2 THEN "IndexError"
    ELSE IF ~isnumeric(split_at(dep)[2]) THEN "ok"
    ELSE LET rank == py_int_bool(isnumeric(split_at(dep)[2]))
         IN IF rank < 0 \/ rank >= nprocs THEN "ValueError" ELSE "ok"

\* The first exception of a sequence of outcomes.
FirstErr(rs) ==
    IF \A i \in 1 .. Len(rs) : rs[i] = "ok" THEN "ok"
    ELSE rs[MinOf({i \in 1 .. Len(rs) : rs[i] # "ok"})]

\* The checks made on one dependency value.
check_value(value, nprocs) ==
    FirstErr([i \in 1 .. Len(value.items) |->
                 check_provider_dependency(value.items[i], value, nprocs)])

\* ServiceSpec.validate: for each process, p.validate(), then the
\* dependencies of each of its providers.
service_validate(sv) ==
    FirstErr([i \in 1 .. Len(sv) |->
        LET r == proc_validate(sv[i], abt)
        IN IF r # "ok" THEN r
           ELSE FirstErr([j \in 1 .. Len(sv[i].providers) |->
                    FirstErr([k \in 1 .. Len(sv[i].providers[j].deps) |->
                        check_value(sv[i].providers[j].deps[k], Len(sv))])])])

Locators ==
    { <<"p">>, <<"p", "@", "0">>, <<"p", "@", "1">>, <<"p", "@", "2">>,
      <<"p", "@", "3">>, <<"p", "@", "x">> }

\* The values of a provider's dependency: one locator, or a list of one or
\* two, or a list with the string "@" in it.
DepValues ==
    {StrDep(l) : l \in Locators}
    \cup {ListDep(<<l>>) : l \in Locators}
    \cup {ListDep(<<<<"p", "@", "0">>, l>>) : l \in Locators}
    \cup {ListDep(<<<<"@">>, <<"p", "@", "2">>>>)}

InitSvc ==
    /\ heap = AbtHeap
    /\ abt = DefaultAbt
    /\ svc = <<>>
    /\ config = NoConfig
    /\ reads = {}
    /\ last = Call("init", 0, None, "", <<>>, "ok")
    /\ elemType = "PoolSpec"
    /\ list = <<>>
    /\ proc = NoProc

\* service.processes.append(ProcSpec(margo=..., libraries={"A": path})).
\* Each process has its own default Argobots; the model keeps one copy of
\* the default objects, no pool being compared across processes.
SvcAddProcess ==
    /\ Len(svc) < MaxProc
    /\ svc' = Append(svc, [DefaultProc(abt) EXCEPT !.libraries = {"A"}])
    /\ last' = Call("processes.append", 0, None, "", <<>>, "ok")
    /\ UNCHANGED <<heap, elemType, list, abt, proc, config, reads>>

\* service.processes[i].providers.add(name=, type="A", pool=,
\* dependencies={"dep": v}) on a process that has no provider yet.
SvcAddProvider ==
    \E i \in 1 .. Len(svc), v \in DepValues :
        /\ svc[i].providers = <<>>
        /\ svc' = [svc EXCEPT ![i].providers =
                      <<[name |-> "a", type |-> "A", pool |-> svc[i].rpc_pool,
                         deps |-> <<v>>]>>]
        /\ last' = Call("providers.add", 0, None, "", <<>>, "ok")
        /\ UNCHANGED <<heap, elemType, list, abt, proc, config, reads>>

\* service.validate()
SvcValidate ==
    /\ last' = Call("validate", 0, None, "", <<>>, service_validate(svc))
    /\ UNCHANGED <<heap, elemType, list, abt, proc, svc, config, reads>>

NextSvc == SvcAddProcess \/ SvcAddProvider \/ SvcValidate

SpecSvc == InitSvc /\ [][NextSvc]_vars

\* The locators of a service's providers.
LocatorsOf(sv) ==
    UNION {Range(sv[i].providers[j].deps[k].items) :
             <<i, j, k>> \in {t \in (1 .. Len(sv)) \X {1} \X {1} :
                                 /\ Len(sv[t[1]].providers) >= t[2]
                                 /\ Len(sv[t[1]].providers[t[2]].deps) >= t[3]}}

\* A locator name@rank whose rank is not one of the nprocs processes.
RankOutOfRange(loc, nprocs) ==
    /\ Len(split_at(loc)) = 2
    /\ isnumeric(split_at(loc)[2])
    /\ py_int(split_at(loc)[2]) \notin 0 .. nprocs - 1

\* C10: validate() on a Service with N processes fails exactly when some
\* provider dependency locator name@rank, given as a string or as an element
\* of a list, has a numeric rank outside 0..N-1; it passes when every such
\* rank r satisfies 0 <= r < N.
C10_RankInRange ==
    last.op = "validate" =>
        (last.err # "ok" <=>
            \E loc \in LocatorsOf(svc) : RankOutOfRange(loc, Len(svc)))

\* =============================================================== MargoSpec
\* MargoSpec.validate, membership of the two pools decided by name: not what
\* the code does.
margo_validate_by_name(pr, a) ==
    IF abt_validate(a) # "ok" THEN abt_validate(a)
    ELSE IF find_with_name(a.pools, heap[pr.progress_pool].name) = None THEN "ValueError"
    ELSE IF find_with_name(a.pools, heap[pr.rpc_pool].name) = None THEN "ValueError"
    ELSE "ok"

\* MargoSpec.validate: mercury.validate() and attr.validate() hold of every
\* object the model builds (the validators keep the pools PoolSpec objects,
\* never None); then argobots.validate(), then progress_pool and rpc_pool
\* `in` the plain list argobots._pools.
margo_validate(pr, a) ==
    IF abt_validate(a) # "ok" THEN abt_validate(a)
    ELSE IF ~py_in(pr.progress_pool, a.pools) THEN "ValueError"
    ELSE IF ~py_in(pr.rpc_pool, a.pools) THEN "ValueError"
    ELSE "ok"

\* margo.validate()
MargoValidate ==
    /\ last' = Call("margo.validate", 0, None, "", <<>>, margo_validate(proc, abt))
    /\ UNCHANGED <<heap, elemType, list, abt, proc, svc, config, reads>>

\* del margo.argobots.pools[key]
MargoDelPool ==
    \E key \in Keys(abt.pools) :
        LET r == delitem_int(abt.pools, key)
        IN AbtApply("pools", r, Call("delitem", 0, None, "pools", <<>>, r.err))

NextMargo ==
    \/ ProcSetMargoPool \/ ProcSetScheduler \/ AbtAddPool \/ MargoDelPool
    \/ MargoValidate

SpecMargo == InitProc /\ [][NextMargo]_vars

\* An Argobots that is valid by itself: it has an xstream, and every
\* xstream schedules at least one pool, all of them in the pool list.
ArgobotsValid(a) ==
    /\ Len(a.xstreams) > 0
    /\ \A i \in 1 .. Len(a.xstreams) :
          /\ heap[a.xstreams[i]].pools # <<>>
          /\ Range(heap[a.xstreams[i]].pools) \subseteq Range(a.pools)

\* C11: validate() on a Margo raises the referential-integrity error
\* (ValueError) when its rpc pool or its progress pool is not, as an object,
\* a member of its Argobots's pool list, even when a member has the same
\* name; it passes when both are members and the Argobots is valid.
C11_MargoValidate ==
    last.op = "margo.validate" =>
        /\ ({proc.progress_pool, proc.rpc_pool} \subseteq Range(abt.pools))
              => (last.err = "ok" <=> ArgobotsValid(abt))
        /\ ~({proc.progress_pool, proc.rpc_pool} \subseteq Range(abt.pools))
              => last.err = "ValueError"

\* validate() has refused an rpc pool that is not in the list although a
\* member of the list has its name.
C11_Witness ==
    /\ last.op = "margo.validate"
    /\ last.err = "ValueError"
    /\ ArgobotsValid(abt)
    /\ proc.progress_pool \in Range(abt.pools)
    /\ proc.rpc_pool \notin Range(abt.pools)
    /\ find_with_name(abt.pools, heap[proc.rpc_pool].name) # None

\* ===================================================== ProcSpec constructor
\* The sequences of at most MaxEnt elements of S.
SeqsUpTo(S) == UNION {[1 .. n -> S] : n \in 0 .. MaxEnt}

\* The entities a caller can put in the list w of a process.
EntitiesOf(w) ==
    IF w \in ProcLists THEN [name : Names, pool : PoolObjects]
    ELSE IF w = "providers"
         THEN [name : Names, type : {"A"}, pool : {abt.pools[1]}, deps : {<<>>}]
    ELSE [name : Names, type : {"A"}]

\* ProcSpec(margo=, libraries={"A": path}, <w>=[...]) for one of the lists
\* abt_io, mona, ssg, providers, clients, which is also how
\* ProcSpec.from_dict ends after appending each deserialized entity to a
\* plain list: the list fields ask for a list and nothing more, and no
\* SpecListDecorator is involved.
ProcConstruct ==
    \E w \in ProcLists \cup {"providers", "clients"} :
        \E es \in SeqsUpTo(EntitiesOf(w)) :
            /\ proc' = [DefaultProc(abt) EXCEPT ![w] = es, !.libraries = {"A"}]
            /\ last' = Call("ProcSpec", 0, None, "", <<>>, "ok")
            /\ UNCHANGED <<heap, elemType, list, abt, svc, config, reads>>

NextCtor == ProcConstruct \/ ProcValidate

SpecCtor == InitProc /\ [][NextCtor]_vars

\* Two entries of the list l of entity records have the same name.
SameNameTwice(l) ==
    \E i, j \in 1 .. Len(l) : i # j /\ l[i].name = l[j].name

\* C12: validate() on a Process fails when one of its named lists (abt_io,
\* mona, ssg, providers, clients) holds two entities with the same name,
\* however the list was filled.
C12_ValidateRejectsDuplicates ==
    (/\ last.op = "validate"
     /\ \E w \in {"abt_io", "mona", "ssg", "providers", "clients"} :
           SameNameTwice(proc[w]))
        => last.err # "ok"

\* ================================================ ArgobotsSpec round trip
\* PoolSpec.to_dict: attr.asdict.  (access is 'mpmc' throughout.)
pool_to_dict(o) == [name |-> heap[o].name, kind |-> heap[o].kind]

\* XstreamSpec.to_dict with SchedulerSpec.to_dict: the pools by name.
xstream_to_dict(o) ==
    [name |-> heap[o].name, type |-> heap[o].kind,
     pools |-> [j \in 1 .. Len(heap[o].pools) |-> heap[heap[o].pools[j]].name]]

\* ArgobotsSpec.to_dict
abt_to_dict(a) ==
    [pools |-> [i \in 1 .. Len(a.pools) |-> pool_to_dict(a.pools[i])],
     xstreams |-> [i \in 1 .. Len(a.xstreams) |-> xstream_to_dict(a.xstreams[i])]]

\* The index of the first entry of the document's list ds named n, 0 if none.
doc_find(ds, n) ==
    IF \E i \in 1 .. Len(ds) : ds[i].name = n
    THEN MinOf({i \in 1 .. Len(ds) : ds[i].name = n})
    ELSE None

\* The objects from_dict constructs are new: they get the identities after
\* those of the heap, the pools first, then the xstreams.
NewId(k) == Len(heap) + k

\* The outcome of a from_dict: the exception, or the new objects and the
\* two lists of the new ArgobotsSpec.
Built(e, os, ps, xs) == [err |-> e, objs |-> os, pools |-> ps, xstreams |-> xs]

\* ArgobotsSpec.from_dict: a default ArgobotsSpec emptied of its xstream and
\* its pool, then pools.add(**p) for each pool of the document (NameError on
\* a repeated name), then for each xstream SchedulerSpec.from_dict, which
\* looks each pool name up in the new pool list (KeyError), the scheduler's
\* validator (ValueError on no pool) and xstreams.append (NameError).
abt_from_dict(d) ==
    IF \E i, j \in 1 .. Len(d.pools) : i # j /\ d.pools[i].name = d.pools[j].name
    THEN Built("NameError", <<>>, <<>>, <<>>)
    ELSE LET np == Len(d.pools)
             res(k) == [j \in 1 .. Len(d.xstreams[k].pools) |->
                           IF doc_find(d.pools, d.xstreams[k].pools[j]) = None THEN None
                           ELSE NewId(doc_find(d.pools, d.xstreams[k].pools[j]))]
             xerr(k) ==
                 IF \E j \in 1 .. Len(res(k)) : res(k)[j] = None THEN "KeyError"
                 ELSE IF res(k) = <<>> THEN "ValueError"
                 ELSE IF \E m \in 1 .. k - 1 : d.xstreams[m].name = d.xstreams[k].name
                      THEN "NameError"
                 ELSE "ok"
             e == FirstErr([k \in 1 .. Len(d.xstreams) |-> xerr(k)])
         IN IF e # "ok" THEN Built(e, <<>>, <<>>, <<>>)
            ELSE Built("ok",
                   [i \in 1 .. np |-> Obj("PoolSpec", d.pools[i].name, d.pools[i].kind)]
                   \o [k \in 1 .. Len(d.xstreams) |->
                          [cls |-> "XstreamSpec", name |-> d.xstreams[k].name,
                           kind |-> d.xstreams[k].type, pools |-> res(k)]],
                   [i \in 1 .. np |-> NewId(i)],
                   [k \in 1 .. Len(d.xstreams) |-> NewId(np + k)])

\* pool.kind = k on a pool the caller holds: kind is not frozen, its
\* validator asks for one of the known kinds.
AbtSetPoolKind ==
    \E o \in PoolObjects, k \in Kinds :
        /\ heap[o].kind # k
        /\ heap' = [heap EXCEPT ![o].kind = k]
        /\ last' = Call("pool.kind", 0, None, "", <<>>, "ok")
        /\ UNCHANGED <<elemType, list, abt, proc, svc, config, reads>>

\* B = ArgobotsSpec.from_dict(abt.to_dict()); the outcome is kept in last.
AbtFromDict ==
    /\ last' = [Call("from_dict", 0, None, "", <<>>, abt_from_dict(abt_to_dict(abt)).err)
                   EXCEPT !.nm = abt_from_dict(abt_to_dict(abt))]
    /\ UNCHANGED <<heap, elemType, list, abt, proc, svc, config, reads>>

NextRT ==
    \/ AbtAddPool \/ AbtAddXstream \/ AbtDelItem \/ AbtSetPoolKind \/ AbtFromDict

SpecRT == InitAbt /\ [][NextRT]_vars

\* The names, in order, of the objects os of the heap h.
NamesIn(h, os) == [i \in 1 .. Len(os) |-> h[os[i]].name]

\* The kinds (pool kind, scheduler type), in order, of the objects os.
KindsIn(h, os) == [i \in 1 .. Len(os) |-> h[os[i]].kind]

\* C13: for any constructed Argobots A, from_dict(to_dict(A)) succeeds and
\* gives B with the pool names and the xstream names of A in the same order,
\* the same kind per pool and scheduler type per xstream, for each xstream
\* the same ordered list of scheduled pool names, and every scheduled pool
\* of B a member object of B's pool list, none an object of A.
C13_RoundTrip ==
    last.op = "from_dict" =>
        /\ last.err = "ok"
        /\ LET B == last.nm
               h == heap \o B.objs
           IN /\ NamesIn(h, B.pools) = NamesIn(heap, abt.pools)
              /\ KindsIn(h, B.pools) = KindsIn(heap, abt.pools)
              /\ NamesIn(h, B.xstreams) = NamesIn(heap, abt.xstreams)
              /\ KindsIn(h, B.xstreams) = KindsIn(heap, abt.xstreams)
              /\ \A k \in 1 .. Len(B.xstreams) :
                    /\ NamesIn(h, h[B.xstreams[k]].pools)
                          = NamesIn(heap, heap[abt.xstreams[k]].pools)
                    /\ Range(h[B.xstreams[k]].pools) \subseteq Range(B.pools)
                    /\ Range(h[B.xstreams[k]].pools) \cap Objects = {}

\* ==================================================== configuration spaces
\* The key of a hyperparameter: its name, and the xstream (or provider, or
\* process) index j and the pool index i in it, -1 where it has none.
Key(k, j, i) == <<k, j, i>>

\* An int|tuple[int,int] argument of a space() function.
IntArg(n) == [ranged |-> FALSE, lo |-> n, hi |-> n]

RangeArg(a, b) == [ranged |-> TRUE, lo |-> a, hi |-> b]

\* ConfigSpace.GreaterThanCondition(child, parent, value), kept as the pair
\* <<parent, value>> under its child: the child is active when the parent's
\* value is greater than value.  Several conditions of one child are an
\* AndConjunction.
GreaterThan(parent, value) == <<parent, value>>

\* ArgobotsSpec.space putting a condition on a pool's kind only above the
\* minimum count, not from it: not what the code does.
argobots_space_above_min(np, nx, W) ==
    LET P == 0 .. np.hi - 1
        X == 0 .. nx.hi - 1
        hps == {Key("num_pools", -1, -1), Key("num_xstreams", -1, -1)}
               \cup {Key("xstreams.scheduler.type", j, -1) : j \in X}
               \cup {Key("xstreams.scheduler.pool_association_weight", j, i) :
                        j \in X, i \in P}
               \cup {Key("pools.kind", -1, i) : i \in P}
        cond(h) ==
            IF h[1] = "xstreams.scheduler.type"
            THEN IF h[2] >= nx.lo /\ nx.ranged
                 THEN {GreaterThan("num_xstreams", h[2])} ELSE {}
            ELSE IF h[1] = "pools.kind"
            THEN IF h[3] > np.lo /\ np.ranged
                 THEN {GreaterThan("num_pools", h[3])} ELSE {}
            ELSE IF h[1] = "xstreams.scheduler.pool_association_weight"
            THEN (IF h[3] > np.lo - 1 /\ np.ranged
                  THEN {GreaterThan("num_pools", h[3])} ELSE {})
                 \cup (IF h[2] > nx.lo - 1 /\ nx.ranged
                       THEN {GreaterThan("num_xstreams", h[2])} ELSE {})
            ELSE {}
    IN [num_pools |-> np, num_xstreams |-> nx, weights |-> W,
        hps |-> hps, conds |-> [h \in hps |-> cond(h)]]

\* ArgobotsSpec.space(num_pools=np, num_xstreams=nx,
\* pool_association_weights=W): the hyperparameters and the conditions of
\* each; W is kept as the set of values a weight is drawn from.
\* XstreamSpec.space gives every xstream a scheduler type and one weight
\* per pool index below the maximum, PoolSpec.space gives every pool a kind.
argobots_space(np, nx, W) ==
    LET P == 0 .. np.hi - 1
        X == 0 .. nx.hi - 1
        hps == {Key("num_pools", -1, -1), Key("num_xstreams", -1, -1)}
               \cup {Key("xstreams.scheduler.type", j, -1) : j \in X}
               \cup {Key("xstreams.scheduler.pool_association_weight", j, i) :
                        j \in X, i \in P}
               \cup {Key("pools.kind", -1, i) : i \in P}
        cond(h) ==
            IF h[1] = "xstreams.scheduler.type"
            THEN IF h[2] >= nx.lo /\ nx.ranged
                 THEN {GreaterThan("num_xstreams", h[2])} ELSE {}
            ELSE IF h[1] = "pools.kind"
            THEN IF h[3] >= np.lo /\ np.ranged
                 THEN {GreaterThan("num_pools", h[3])} ELSE {}
            ELSE IF h[1] = "xstreams.scheduler.pool_association_weight"
            THEN (IF h[3] > np.lo - 1 /\ np.ranged
                  THEN {GreaterThan("num_pools", h[3])} ELSE {})
                 \cup (IF h[2] > nx.lo - 1 /\ nx.ranged
                       THEN {GreaterThan("num_xstreams", h[2])} ELSE {})
            ELSE {}
    IN [num_pools |-> np, num_xstreams |-> nx, weights |-> W,
        hps |-> hps, conds |-> [h \in hps |-> cond(h)]]

\* The hyperparameters of the space cs that are active when the counts are
\* n pools and m xstreams.
ActiveKeys(cs, n, m) ==
    {h \in cs.hps :
        \A c \in cs.conds[h] :
            (IF c[1] = "num_pools" THEN n ELSE m) > c[2]}

\* The weight hyperparameters of cs that are active with n pools and m
\* xstreams.
ActiveWeights(cs, n, m) ==
    {h \in ActiveKeys(cs, n, m) : h[1] = "xstreams.scheduler.pool_association_weight"}

\* The Configuration of the space cs with n pools, m xstreams and the
\* weights w: a value for each active hyperparameter and no entry for the
\* others.  The kind and the scheduler type are the constants of a space
\* built with pool_kinds='fifo_wait' and scheduler_types='basic_wait'.
Sample(cs, n, m, w) ==
    [h \in ActiveKeys(cs, n, m) |->
        IF h[1] = "num_pools" THEN n
        ELSE IF h[1] = "num_xstreams" THEN m
        ELSE IF h[1] = "pools.kind" THEN "fifo_wait"
        ELSE IF h[1] = "xstreams.scheduler.type" THEN "basic_wait"
        ELSE w[h]]

\* The order of Python's tuples (weight, index).
PairLeq(a, b) == a[1] < b[1] \/ (a[1] = b[1] /\ a[2] <= b[2])

\* sorted(pairs)[-1]
MaxPair(S) == CHOOSE p \in S : \A q \in S : PairLeq(q, p)

\* reversed(sorted(pairs))
RECURSIVE SortDesc(_)
SortDesc(S) ==
    IF S = {} THEN <<>>
    ELSE LET mx == MaxPair(S) IN <<mx>> \o SortDesc(S \ {mx})

\* The members of a set of integers in increasing order.
RECURSIVE SortAsc(_)
SortAsc(S) ==
    IF S = {} THEN <<>> ELSE <<MinOf(S)>> \o SortAsc(S \ {MinOf(S)})

WeightKey(j, i) == Key("xstreams.scheduler.pool_association_weight", j, i)

\* The scheduler's pools without the reversal of the sorted list, lowest
\* weight first: not what the code does.
scheduler_from_config_unreversed(cfg, j, n) ==
    LET pool_weights == {<<cfg[WeightKey(j, i)], i>> : i \in 0 .. n - 1}
        last_pair == MaxPair(pool_weights)
    IN IF last_pair[1] <= 0 THEN <<last_pair[2]>>
       ELSE LET srt == SortDesc({p \in pool_weights : p[1] > 0})
            IN [k \in 1 .. Len(srt) |-> srt[Len(srt) + 1 - k][2]]

\* SchedulerSpec.from_config for xstream j over n pools: the pool of the
\* greatest (weight, index) when no weight is positive, otherwise the pools
\* of positive weight by decreasing (weight, index).  Pools are indices here.
scheduler_from_config(cfg, j, n) ==
    LET pool_weights == {<<cfg[WeightKey(j, i)], i>> : i \in 0 .. n - 1}
        last_pair == MaxPair(pool_weights)
    IN IF last_pair[1] <= 0 THEN <<last_pair[2]>>
       ELSE LET srt == SortDesc({p \in pool_weights : p[1] > 0})
            IN [k \in 1 .. Len(srt) |-> srt[k][2]]

\* The keys ArgobotsSpec.from_config consults: the two counts, for each
\* pool below num_pools the entries under its prefix (PoolSpec.from_config
\* filters config.items() by prefix), for each xstream below num_xstreams
\* its scheduler type and its weight for each pool below num_pools.
argobots_reads(cfg) ==
    LET n == cfg[Key("num_pools", -1, -1)]
        m == cfg[Key("num_xstreams", -1, -1)]
    IN {Key("num_pools", -1, -1), Key("num_xstreams", -1, -1)}
       \cup {h \in DOMAIN cfg : h[1] = "pools.kind" /\ h[3] \in 0 .. n - 1}
       \cup {Key("xstreams.scheduler.type", j, -1) : j \in 0 .. m - 1}
       \cup {WeightKey(j, i) : j \in 0 .. m - 1, i \in 0 .. n - 1}

PoolNames == <<"pool_0", "pool_1", "pool_2", "pool_3", "pool_4">>

XstreamNames == <<"__primary__", "xstream_1", "xstream_2", "xstream_3", "xstream_4">>

\* ArgobotsSpec.from_config with no pass over the unused pools: not what
\* the code does.
argobots_from_config_no_unused(cfg) ==
    IF ~(argobots_reads(cfg) \subseteq DOMAIN cfg) THEN Built("KeyError", <<>>, <<>>, <<>>)
    ELSE LET n == cfg[Key("num_pools", -1, -1)]
             m == cfg[Key("num_xstreams", -1, -1)]
             sched == [j \in 0 .. m - 1 |-> scheduler_from_config(cfg, j, n)]
         IN Built("ok",
                [k \in 1 .. n |-> Obj("PoolSpec", PoolNames[k], cfg[Key("pools.kind", -1, k - 1)])]
                \o [k \in 1 .. m |->
                       [cls |-> "XstreamSpec", name |-> XstreamNames[k],
                        kind |-> cfg[Key("xstreams.scheduler.type", k - 1, -1)],
                        pools |-> LET sp == sched[k - 1]
                                  IN [q \in 1 .. Len(sp) |-> NewId(sp[q] + 1)]]],
                [k \in 1 .. n |-> NewId(k)],
                [k \in 1 .. m |-> NewId(n + k)])

\* ArgobotsSpec.from_config: the pools pool_0.., the xstreams __primary__,
\* xstream_1.. each with the scheduler SchedulerSpec.from_config gives it,
\* then every pool no scheduler took is appended, in index order, to the
\* scheduler of the xstream of greatest (weight for that pool, index).
argobots_from_config(cfg) ==
    IF ~(argobots_reads(cfg) \subseteq DOMAIN cfg) THEN Built("KeyError", <<>>, <<>>, <<>>)
    ELSE LET n == cfg[Key("num_pools", -1, -1)]
             m == cfg[Key("num_xstreams", -1, -1)]
             first == [j \in 0 .. m - 1 |-> scheduler_from_config(cfg, j, n)]
             used_pools == UNION {Range(first[j]) : j \in 0 .. m - 1}
             target(i) == MaxPair({<<cfg[WeightKey(j, i)], j>> : j \in 0 .. m - 1})[2]
             sched == [j \in 0 .. m - 1 |->
                          first[j] \o SortAsc({i \in 0 .. n - 1 :
                                                 i \notin used_pools /\ target(i) = j})]
         IN Built("ok",
                [k \in 1 .. n |-> Obj("PoolSpec", PoolNames[k], cfg[Key("pools.kind", -1, k - 1)])]
                \o [k \in 1 .. m |->
                       [cls |-> "XstreamSpec", name |-> XstreamNames[k],
                        kind |-> cfg[Key("xstreams.scheduler.type", k - 1, -1)],
                        pools |-> LET sp == sched[k - 1]
                                  IN [q \in 1 .. Len(sp) |-> NewId(sp[q] + 1)]]],
                [k \in 1 .. n |-> NewId(k)],
                [k \in 1 .. m |-> NewId(n + k)])

\* The association weights of the samples: one negative, zero, one positive
\* value of the range (-1.0, 1.0).
Weights == {-1, 0, 1}

\* config while a space is built, sampled and resolved.
Conf(ph, cs, f) == [phase |-> ph, cs |-> cs, sample |-> f]

\* space = ArgobotsSpec.space(num_pools=(1, MaxPools),
\* num_xstreams=(1, MaxXs), pool_kinds='fifo_wait',
\* scheduler_types='basic_wait'), every narrower space admitting a subset
\* of its samples.
InitResolve ==
    /\ heap = <<>>
    /\ abt = NoAbt
    /\ config = Conf("space",
                     argobots_space(RangeArg(1, MaxPools), RangeArg(1, MaxXs), Weights),
                     <<>>)
    /\ reads = {}
    /\ last = Call("space", 0, None, "", <<>>, "ok")
    /\ elemType = "PoolSpec"
    /\ list = <<>>
    /\ proc = NoProc
    /\ svc = NoSvc

\* config = space.sample_configuration()
SampleConfiguration ==
    /\ config.phase = "space"
    /\ \E n \in config.cs.num_pools.lo .. config.cs.num_pools.hi,
          m \in config.cs.num_xstreams.lo .. config.cs.num_xstreams.hi :
          \E w \in [ActiveWeights(config.cs, n, m) -> config.cs.weights] :
              config' = Conf("sample", config.cs, Sample(config.cs, n, m, w))
    /\ last' = Call("sample_configuration", 0, None, "", <<>>, "ok")
    /\ UNCHANGED <<heap, elemType, list, abt, proc, svc, reads>>

\* abt = ArgobotsSpec.from_config(config)
ArgobotsFromConfig ==
    /\ config.phase = "sample"
    /\ \E r \in {argobots_from_config(config.sample)} :
          /\ heap' = heap \o r.objs
          /\ abt' = [pools |-> r.pools, xstreams |-> r.xstreams]
          /\ last' = Call("from_config", 0, None, "", <<>>, r.err)
    /\ reads' = argobots_reads(config.sample)
    /\ config' = Conf("resolved", config.cs, config.sample)
    /\ UNCHANGED <<elemType, list, proc, svc>>

NextResolve == SampleConfiguration \/ ArgobotsFromConfig

SpecResolve == InitResolve /\ [][NextResolve]_vars

\* The sampled counts.
NumPools == config.sample[Key("num_pools", -1, -1)]

NumXstreams == config.sample[Key("num_xstreams", -1, -1)]

\* C14: in the Argobots resolved from any sample with num_pools >= 1 and
\* num_xstreams >= 1, whatever the association weights (all zero, all
\* negative and ties included), every pool is in the scheduler of at least
\* one xstream and every xstream's scheduler has at least one pool.
C14_ResolutionCoverage ==
    last.op = "from_config" =>
        /\ last.err = "ok"
        /\ Len(abt.pools) = NumPools
        /\ Len(abt.xstreams) = NumXstreams
        /\ \A i \in 1 .. Len(abt.pools) :
              \E j \in 1 .. Len(abt.xstreams) :
                  abt.pools[i] \in Range(heap[abt.xstreams[j]].pools)
        /\ \A j \in 1 .. Len(abt.xstreams) : heap[abt.xstreams[j]].pools # <<>>

\* Three pools and one xstream, no weight positive: the single xstream
\* schedules the three pools.
C14_Witness ==
    /\ last.op = "from_config"
    /\ NumPools = 3
    /\ NumXstreams = 1
    /\ \A i \in 0 .. 2 : config.sample[WeightKey(0, i)] <= 0
    /\ Range(heap[abt.xstreams[1]].pools) = Range(abt.pools)
    /\ Len(abt.pools) = 3

\* C15: in the Argobots resolved from any sample, for every k below
\* min(num_pools, num_xstreams), pool k is in the scheduler of xstream k,
\* whatever the association weights.
C15_CoverageSeed ==
    last.op = "from_config" =>
        \A k \in 1 .. Len(abt.pools) :
            k <= Len(abt.xstreams) =>
                abt.pools[k] \in Range(heap[abt.xstreams[k]].pools)

\* ------------------------------------------------ spaces of an ArgobotsSpec
\* The int or (min, max) arguments with 1 <= min <= max <= mx.
CountArgs(mx) ==
    {IntArg(n) : n \in 1 .. mx}
    \cup UNION {{RangeArg(a, b) : b \in a .. mx} : a \in 1 .. mx}

NoSpace == Conf("none", <<>>, <<>>)

InitSpace ==
    /\ heap = <<>>
    /\ abt = NoAbt
    /\ config = NoSpace
    /\ reads = {}
    /\ last = Call("init", 0, None, "", <<>>, "ok")
    /\ elemType = "PoolSpec"
    /\ list = <<>>
    /\ proc = NoProc
    /\ svc = NoSvc

\* space = ArgobotsSpec.space(num_pools=np, num_xstreams=nx,
\* pool_kinds='fifo_wait', scheduler_types='basic_wait',
\* pool_association_weights=1.0)
ArgobotsSpace ==
    /\ config.phase = "none"
    /\ \E np \in CountArgs(MaxPools), nx \in CountArgs(MaxXs) :
          config' = Conf("space", argobots_space(np, nx, {1}), <<>>)
    /\ last' = Call("space", 0, None, "", <<>>, "ok")
    /\ UNCHANGED <<heap, elemType, list, abt, proc, svc, reads>>

NextSpace == ArgobotsSpace \/ SampleConfiguration \/ ArgobotsFromConfig

SpecSpace == InitSpace /\ [][NextSpace]_vars

\* C17: in the space of an Argobots with counts in [min, max], there is a
\* parameter for every index below the maximum, and a per-index parameter
\* is in a sample exactly when the sampled count exceeds its index:
\* pools[i].kind iff num_pools > i, xstreams[j].scheduler.type iff
\* num_xstreams > j, the weight of (pool i, xstream j) iff both.
C17_ConditionalActivation ==
    config.phase \in {"sample", "resolved"} =>
        LET cs == config.cs
            P == 0 .. cs.num_pools.hi - 1
            X == 0 .. cs.num_xstreams.hi - 1
        IN /\ \A i \in P :
                 /\ Key("pools.kind", -1, i) \in cs.hps
                 /\ Key("pools.kind", -1, i) \in DOMAIN config.sample <=> NumPools > i
           /\ \A j \in X :
                 /\ Key("xstreams.scheduler.type", j, -1) \in cs.hps
                 /\ Key("xstreams.scheduler.type", j, -1) \in DOMAIN config.sample
                       <=> NumXstreams > j
           /\ \A i \in P, j \in X :
                 /\ WeightKey(j, i) \in cs.hps
                 /\ WeightKey(j, i) \in DOMAIN config.sample
                       <=> (NumPools > i /\ NumXstreams > j)

\* A sample of a ranged space with fewer pools and fewer xstreams than the
\* maximum, the parameters of the first index left out being absent.
C17_Witness ==
    /\ config.phase = "sample"
    /\ config.cs.num_pools.ranged
    /\ config.cs.num_xstreams.ranged
    /\ NumPools = config.cs.num_pools.lo
    /\ NumPools < config.cs.num_pools.hi
    /\ NumXstreams < config.cs.num_xstreams.hi
    /\ Key("pools.kind", -1, NumPools) \notin DOMAIN config.sample
    /\ WeightKey(NumXstreams, 0) \notin DOMAIN config.sample

\* ----------------------------------------------------- spaces of a ProcSpec
\* Prefixes ('margo.argobots.', 'providers.<family>[c].') are folded into
\* the key: one provider family, its copy index in the key's second place.
\* A forbidden clause ForbiddenAndConjunction(ForbiddenInClause(sel, vals),
\* ForbiddenEqualsClause(num_pools, c)).
Forbidden(sel, vals, c) == [sel |-> sel, vals |-> vals, num_pools |-> c]

\* The clauses of a pool selector with a clause range starting one above the
\* count value: not what the code does.
selector_clauses_above(sel, np) ==
    {Forbidden(sel, c + 1 .. np.hi - 1, c) : c \in np.lo .. np.hi - 1}

\* The clauses MargoSpec.space adds for rpc_pool or progress_pool: for each
\* count value c from the minimum to below the maximum, selector in
\* [c, max) with num_pools = c.
selector_clauses(sel, np) ==
    {Forbidden(sel, c .. np.hi - 1, c) : c \in np.lo .. np.hi - 1}

\* The clauses of CategoricalChoice(name, num_options): when the maximum
\* differs from the minimum, for each j from the minimum to below the
\* maximum, num_options = j with choice in [j, max).
CategoricalChoice(name, num_options) ==
    IF num_options.hi # num_options.lo
    THEN {Forbidden(name, j .. num_options.hi - 1, j) :
             j \in num_options.lo .. num_options.hi - 1}
    ELSE {}

\* The hyperparameters ProviderSpec.space(type='A', max_num_pools=mx) gives
\* copy c of the family.
provider_hps(c, mx) ==
    {Key("providers.type", c, -1), Key("providers.tags", c, -1),
     Key("providers.config_resolver", c, -1),
     Key("providers.dependency_resolver", c, -1)}
    \cup {Key("providers.pool_association_weight", c, i) : i \in 0 .. mx - 1}

Selectors == {"rpc_pool", "progress_pool", "choice"}

\* ProcSpec.space(num_pools=np, num_xstreams=nx, provider_space_factories=
\* [{'family': f, 'space': ProviderSpec.space('A', max), 'count': cnt}]),
\* to which the caller adds CategoricalChoice('choice', num_pools).
\* MargoSpec.space adds the two pool selectors over range(max) and their
\* clauses; every copy below the count's upper bound is added, its weights
\* for pool indices from the minimum conditioned on num_pools, and all its
\* parameters conditioned on the count when its index is above the count's
\* lower bound.
proc_space(np, nx, W, cnt) ==
    LET acs == argobots_space(np, nx, W)
        hps == acs.hps
               \cup {Key("handle_cache_size", -1, -1),
                     Key("progress_timeout_ub_msec", -1, -1)}
               \cup {Key(sel, -1, -1) : sel \in Selectors}
               \cup {Key("providers.families", -1, -1), Key("providers.count", -1, -1)}
               \cup UNION {provider_hps(c, np.hi) : c \in 0 .. cnt.hi - 1}
        cond(h) ==
            IF h \in acs.hps THEN acs.conds[h]
            ELSE IF h \in UNION {provider_hps(c, np.hi) : c \in 0 .. cnt.hi - 1}
            THEN (IF h[1] = "providers.pool_association_weight" /\ h[3] \in np.lo .. np.hi - 1
                  THEN {GreaterThan("num_pools", h[3])} ELSE {})
                 \cup (IF h[2] <= cnt.lo THEN {}
                       ELSE {GreaterThan("providers.count", h[2])})
            ELSE {}
    IN [num_pools |-> np, num_xstreams |-> nx, weights |-> W, count |-> cnt,
        hps |-> hps, conds |-> [h \in hps |-> cond(h)],
        forbidden |-> selector_clauses("rpc_pool", np)
                      \cup selector_clauses("progress_pool", np)
                      \cup CategoricalChoice("choice", np)]

\* The hyperparameters of the space cs that are active with n pools, m
\* xstreams and c providers.
proc_active(cs, n, m, c) ==
    {h \in cs.hps :
        \A g \in cs.conds[h] :
            (IF g[1] = "num_pools" THEN n
             ELSE IF g[1] = "num_xstreams" THEN m ELSE c) > g[2]}

\* The Configuration of cs with these counts, the selector values sv (a
\* function of Selectors) and the xstream weights w; a provider's weights
\* and the other parameters are constants.
ProcSample(cs, n, m, c, sv, w) ==
    [h \in proc_active(cs, n, m, c) |->
        IF h[1] = "num_pools" THEN n
        ELSE IF h[1] = "num_xstreams" THEN m
        ELSE IF h[1] = "providers.count" THEN c
        ELSE IF h[1] \in Selectors THEN sv[h[1]]
        ELSE IF h[1] = "pools.kind" THEN "fifo_wait"
        ELSE IF h[1] = "xstreams.scheduler.type" THEN "basic_wait"
        ELSE IF h[1] = "xstreams.scheduler.pool_association_weight" THEN w[h]
        ELSE IF h[1] = "providers.pool_association_weight" THEN 1
        ELSE IF h[1] = "providers.type" THEN "A"
        ELSE IF h[1] = "providers.families" THEN "f"
        ELSE IF h[1] \in {"handle_cache_size", "progress_timeout_ub_msec"} THEN 32
        ELSE ""]

\* No forbidden clause of cs holds of the configuration f.
Admitted(cs, f) ==
    \A fc \in cs.forbidden :
        ~(f[Key(fc.sel, -1, -1)] \in fc.vals /\ f[Key("num_pools", -1, -1)] = fc.num_pools)

\* f'{family}_{i}' for the family "f".
ProviderNames == <<"f_0", "f_1", "f_2", "f_3", "f_4">>

\* The keys ProviderSpec.from_config reads for copy c with n pools.
provider_reads(c, n) ==
    {Key("providers.type", c, -1), Key("providers.tags", c, -1),
     Key("providers.config_resolver", c, -1),
     Key("providers.dependency_resolver", c, -1)}
    \cup {Key("providers.pool_association_weight", c, i) : i \in 0 .. n - 1}

\* The keys read with a provider loop that runs one copy too far: not what
\* the code does.
proc_reads_one_more(cfg) ==
    argobots_reads(cfg)
    \cup {Key("handle_cache_size", -1, -1), Key("progress_timeout_ub_msec", -1, -1),
          Key("progress_pool", -1, -1), Key("rpc_pool", -1, -1),
          Key("providers.families", -1, -1), Key("providers.count", -1, -1)}
    \cup UNION {provider_reads(c, cfg[Key("num_pools", -1, -1)]) :
                   c \in 0 .. cfg[Key("providers.count", -1, -1)]}

\* The keys ProcSpec.from_config reads: those of ArgobotsSpec.from_config,
\* the four of MargoSpec.from_config, the families, the count of the
\* family and, for each copy below the count, those of
\* ProviderSpec.from_config with the resolved pools.
proc_reads(cfg) ==
    argobots_reads(cfg)
    \cup {Key("handle_cache_size", -1, -1), Key("progress_timeout_ub_msec", -1, -1),
          Key("progress_pool", -1, -1), Key("rpc_pool", -1, -1),
          Key("providers.families", -1, -1), Key("providers.count", -1, -1)}
    \cup UNION {provider_reads(c, cfg[Key("num_pools", -1, -1)]) :
                   c \in 0 .. cfg[Key("providers.count", -1, -1)] - 1}

\* ProviderSpec.from_config(name, pools, config): the pool of the largest
\* (weight, index) pair.
provider_from_config(cfg, c, pools) ==
    [name |-> ProviderNames[c + 1], type |-> cfg[Key("providers.type", c, -1)],
     pool |-> pools[MaxPair({<<cfg[Key("providers.pool_association_weight", c, i)], i>> :
                                i \in 0 .. Len(pools) - 1})[2] + 1],
     deps |-> <<>>]

\* ProcSpec.from_config(config): the MargoSpec with the Argobots of
\* ArgobotsSpec.from_config and argobots.pools[int(config[selector])] for
\* each of its two pools, then ProcSpec(margo=, providers=) with count
\* providers; a key that is missing is a KeyError, a selector that is not
\* an index of pools an IndexError.
proc_from_config(cfg) ==
    LET r == argobots_from_config(cfg)
        fail(e) == [err |-> e, objs |-> <<>>, pools |-> <<>>, xstreams |-> <<>>,
                    proc |-> NoProc]
    IN IF r.err # "ok" THEN fail(r.err)
       ELSE IF ~(proc_reads(cfg) \subseteq DOMAIN cfg) THEN fail("KeyError")
       ELSE IF \E sel \in {"progress_pool", "rpc_pool"} :
                  cfg[Key(sel, -1, -1)] >= Len(r.pools)
       THEN fail("IndexError")
       ELSE [err |-> "ok", objs |-> r.objs, pools |-> r.pools, xstreams |-> r.xstreams,
             proc |-> [DefaultProc([pools |-> r.pools, xstreams |-> r.xstreams]) EXCEPT
                          !.progress_pool = r.pools[cfg[Key("progress_pool", -1, -1)] + 1],
                          !.rpc_pool = r.pools[cfg[Key("rpc_pool", -1, -1)] + 1],
                          !.providers =
                              [c \in 1 .. cfg[Key("providers.count", -1, -1)] |->
                                  provider_from_config(cfg, c - 1, r.pools)]]]

\* The count arguments of a family: an int or (min, max) with
\* 0 <= min <= max <= mx.
FamilyCounts(mx) ==
    {IntArg(n) : n \in 0 .. mx}
    \cup UNION {{RangeArg(a, b) : b \in a .. mx} : a \in 0 .. mx}

\* space = ProcSpec.space(num_pools=np, num_xstreams=nx, pool_kinds=
\* 'fifo_wait', scheduler_types='basic_wait', pool_association_weights=1.0,
\* provider_space_factories=[family f with count cnt])
ProcSpace ==
    /\ config.phase = "none"
    /\ \E np \in CountArgs(MaxPools), nx \in {IntArg(1), RangeArg(1, MaxXs)},
          cnt \in FamilyCounts(MaxEnt) :
          config' = Conf("space", proc_space(np, nx, {1}, cnt), <<>>)
    /\ last' = Call("space", 0, None, "", <<>>, "ok")
    /\ UNCHANGED <<heap, elemType, list, abt, proc, svc, reads>>

\* config = space.sample_configuration(): any configuration of the active
\* hyperparameters that no forbidden clause excludes.
ProcSampleConfiguration ==
    /\ config.phase = "space"
    /\ \E n \in config.cs.num_pools.lo .. config.cs.num_pools.hi,
          m \in config.cs.num_xstreams.lo .. config.cs.num_xstreams.hi,
          c \in config.cs.count.lo .. config.cs.count.hi :
          \E sv \in [Selectors -> 0 .. config.cs.num_pools.hi - 1] :
              \E f \in {ProcSample(config.cs, n, m, c, sv, [h \in config.cs.hps |-> 1])} :
                  /\ Admitted(config.cs, f)
                  /\ config' = Conf("sample", config.cs, f)
    /\ last' = Call("sample_configuration", 0, None, "", <<>>, "ok")
    /\ UNCHANGED <<heap, elemType, list, abt, proc, svc, reads>>

\* proc = ProcSpec.from_config(config)
ProcFromConfig ==
    /\ config.phase = "sample"
    /\ \E r \in {proc_from_config(config.sample)} :
          /\ heap' = heap \o r.objs
          /\ abt' = [pools |-> r.pools, xstreams |-> r.xstreams]
          /\ proc' = r.proc
          /\ last' = Call("from_config", 0, None, "", <<>>, r.err)
    /\ reads' = proc_reads(config.sample)
    /\ config' = Conf("resolved", config.cs, config.sample)
    /\ UNCHANGED <<elemType, list, svc>>

\* proc.margo.argobots.validate() on the resolved tree.
ResolvedAbtValidate ==
    /\ config.phase = "resolved"
    /\ proc # NoProc
    /\ last' = Call("argobots.validate", 0, None, "", <<>>, abt_validate(abt))
    /\ UNCHANGED <<heap, elemType, list, abt, proc, svc, config, reads>>

\* proc.margo.validate() on the resolved tree.
ResolvedMargoValidate ==
    /\ config.phase = "resolved"
    /\ proc # NoProc
    /\ MargoValidate

\* proc.validate() on the resolved tree.
ResolvedProcValidate ==
    /\ config.phase = "resolved"
    /\ proc # NoProc
    /\ ProcValidate

NextProcConf ==
    \/ ProcSpace \/ ProcSampleConfiguration \/ ProcFromConfig
    \/ ResolvedAbtValidate \/ ResolvedMargoValidate \/ ResolvedProcValidate

SpecProcConf == InitSpace /\ [][NextProcConf]_vars

\* C16: the tree resolved from an admitted sample is already valid:
\* validate() passes on the resolved Argobots, on the resolved Margo and on
\* the resolved Process, with or without providers.
C16_ResolvedTreeValid ==
    (config.phase = "resolved"
     /\ last.op \in {"argobots.validate", "margo.validate", "validate"})
        => last.err = "ok"

\* The copies of the family's sub-space in the space cs.
Copies(cs) == {h[2] : h \in {g \in cs.hps : g[1] = "providers.type"}}

\* C18: a provider family with count range [lo, hi] gives one count
\* parameter and hi copies of the provider space, and a parameter of copy
\* i (a weight: for a pool below the sampled num_pools) is in a sample
\* exactly when the sampled count is greater than i.
C18_FamilyActivation ==
    config.phase \in {"sample", "resolved"} =>
        LET cs == config.cs
            f == config.sample
        IN /\ Key("providers.count", -1, -1) \in cs.hps
           /\ Copies(cs) = 0 .. cs.count.hi - 1
           /\ \A i \in Copies(cs) :
                 /\ provider_hps(i, cs.num_pools.hi) \subseteq cs.hps
                 /\ \A h \in provider_reads(i, f[Key("num_pools", -1, -1)]) :
                       h \in DOMAIN f <=> f[Key("providers.count", -1, -1)] > i

\* C19: for num_pools in [min, max], each pool selector (rpc_pool,
\* progress_pool, a CategoricalChoice over num_pools) has, for every c with
\* min <= c < max, the forbidden clause num_pools = c and selector in
\* [c, max); every admitted sample has each selector below the sampled
\* num_pools, and the resolution takes both pools of the Margo from the
\* pools of the resolved Argobots.
C19_SelectorsBelowCount ==
    /\ config.phase \in {"space", "sample", "resolved"} =>
          \A sel \in Selectors :
              \A c \in config.cs.num_pools.lo .. config.cs.num_pools.hi - 1 :
                  Forbidden(sel, c .. config.cs.num_pools.hi - 1, c) \in config.cs.forbidden
    /\ config.phase \in {"sample", "resolved"} =>
          \A sel \in Selectors :
              config.sample[Key(sel, -1, -1)] < config.sample[Key("num_pools", -1, -1)]
    /\ config.phase = "resolved" =>
          /\ last.op = "from_config" => last.err = "ok"
          /\ proc # NoProc
          /\ proc.rpc_pool = abt.pools[config.sample[Key("rpc_pool", -1, -1)] + 1]
          /\ proc.progress_pool = abt.pools[config.sample[Key("progress_pool", -1, -1)] + 1]

\* A resolved sample of a ranged space with fewer pools than the maximum,
\* the rpc pool being the last pool there is.
C19_Witness ==
    /\ config.phase = "resolved"
    /\ last.op = "from_config"
    /\ config.cs.num_pools.lo < config.sample[Key("num_pools", -1, -1)]
    /\ config.sample[Key("num_pools", -1, -1)] < config.cs.num_pools.hi
    /\ config.sample[Key("rpc_pool", -1, -1)] = config.sample[Key("num_pools", -1, -1)] - 1
    /\ proc.rpc_pool = abt.pools[Len(abt.pools)]
    /\ proc.progress_pool = abt.pools[1]

\* ---------------------------------------------------- spaces of a ServiceSpec
\* The key h of copy p of the process family (prefix 'processes.<family>[p].'),
\* p = -1 for a key of the service itself.
ProcKey(p, h) == <<p, h>>

\* ServiceSpec.space(process_space_factories=[{'family': 'p', 'space': pcs,
\* 'count': cnt}]): the families, the count and a copy of pcs for every
\* index below the count's upper bound.  For an index above the count's
\* lower bound the loop over provider_cs, a name the function does not
\* define, raises NameError; below, no condition on the count is added.
service_space(pcs, cnt) ==
    IF \E i \in 0 .. cnt.hi - 1 : i > cnt.lo
    THEN [err |-> "NameError"]
    ELSE [err |-> "ok", count |-> cnt, proc |-> pcs,
          hps |-> {ProcKey(-1, Key("processes.families", -1, -1)),
                   ProcKey(-1, Key("processes.count", -1, -1))}
                  \cup {ProcKey(p, h) : p \in 0 .. cnt.hi - 1, h \in pcs.hps}]

\* The admitted configurations of the process space pcs.
ProcSamples(pcs) ==
    {f \in {ProcSample(pcs, x[1], x[2], x[3], x[4], [h \in pcs.hps |-> 1]) :
               x \in (pcs.num_pools.lo .. pcs.num_pools.hi)
                     \X (pcs.num_xstreams.lo .. pcs.num_xstreams.hi)
                     \X (pcs.count.lo .. pcs.count.hi)
                     \X [Selectors -> 0 .. pcs.num_pools.hi - 1]} :
        Admitted(pcs, f)}

\* The Configuration of the service space with count c and the process
\* configurations fs, one for each copy.
ServiceSample(cs, c, fs) ==
    [k \in {ProcKey(-1, Key("processes.families", -1, -1)),
            ProcKey(-1, Key("processes.count", -1, -1))}
           \cup UNION {{ProcKey(p, h) : h \in DOMAIN fs[p]} : p \in DOMAIN fs} |->
        IF k[1] >= 0 THEN fs[k[1]][k[2]]
        ELSE IF k[2][1] = "processes.count" THEN c ELSE "p"]

\* The keys of copy p in the configuration cfg, without their prefix.
ProcConfig(cfg, p) ==
    [h \in {k[2] : k \in {q \in DOMAIN cfg : q[1] = p}} |-> cfg[ProcKey(p, h)]]

\* The keys ServiceSpec.from_config reads: the families, the count of the
\* family and, for each copy below the count, those of ProcSpec.from_config
\* under the prefix of the copy.
service_reads(cfg) ==
    {ProcKey(-1, Key("processes.families", -1, -1)),
     ProcKey(-1, Key("processes.count", -1, -1))}
    \cup UNION {{ProcKey(p, h) : h \in proc_reads(ProcConfig(cfg, p))} :
                   p \in 0 .. cfg[ProcKey(-1, Key("processes.count", -1, -1))] - 1}

\* The result r of ProcSpec.from_config with its objects allocated d places
\* further in the heap.
Shifted(r, d) ==
    [err |-> r.err,
     objs |-> [k \in DOMAIN r.objs |->
                  IF r.objs[k].cls = "XstreamSpec"
                  THEN [r.objs[k] EXCEPT !.pools = [q \in DOMAIN @ |-> @[q] + d]]
                  ELSE r.objs[k]],
     proc |-> [r.proc EXCEPT !.progress_pool = @ + d, !.rpc_pool = @ + d, !.bedrock = @ + d,
                             !.providers = [j \in DOMAIN @ |-> [@[j] EXCEPT !.pool = @ + d]]]]

\* The loop of ServiceSpec.from_config from copy p on, acc holding the
\* objects and the processes resolved so far.
RECURSIVE resolve_processes(_, _, _)
resolve_processes(cfg, p, acc) ==
    IF p >= cfg[ProcKey(-1, Key("processes.count", -1, -1))] THEN acc
    ELSE LET r == proc_from_config(ProcConfig(cfg, p))
         IN IF r.err # "ok" THEN [err |-> r.err, objs |-> <<>>, procs |-> <<>>]
            ELSE LET s == Shifted(r, Len(acc.objs))
                 IN resolve_processes(cfg, p + 1,
                        [err |-> "ok", objs |-> acc.objs \o s.objs,
                         procs |-> Append(acc.procs, s.proc)])

\* ServiceSpec.from_config(config): ServiceSpec(processes=) with the
\* ProcSpec.from_config of each copy below the count.
service_from_config(cfg) ==
    IF ~(service_reads(cfg) \subseteq DOMAIN cfg)
    THEN [err |-> "KeyError", objs |-> <<>>, procs |-> <<>>]
    ELSE resolve_processes(cfg, 0, [err |-> "ok", objs |-> <<>>, procs |-> <<>>])

\* space = ServiceSpec.space(process_space_factories=[family p with count
\* cnt and the space of a process with one or two pools, one xstream and
\* at most one provider])
ServiceSpace ==
    /\ config.phase = "none"
    /\ \E cnt \in FamilyCounts(MaxProc) :
          \E cs \in {service_space(proc_space(RangeArg(1, 2), IntArg(1), {1}, RangeArg(0, 1)),
                                   cnt)} :
              /\ config' = IF cs.err = "ok" THEN Conf("svc_space", cs, <<>>)
                           ELSE Conf("failed", <<>>, <<>>)
              /\ last' = Call("service.space", 0, None, "", <<>>, cs.err)
    /\ UNCHANGED <<heap, elemType, list, abt, proc, svc, reads>>

\* config = space.sample_configuration()
ServiceSampleConfiguration ==
    /\ config.phase = "svc_space"
    /\ \E c \in config.cs.count.lo .. config.cs.count.hi :
          \E fs \in [0 .. config.cs.count.hi - 1 -> ProcSamples(config.cs.proc)] :
              config' = Conf("svc_sample", config.cs, ServiceSample(config.cs, c, fs))
    /\ last' = Call("sample_configuration", 0, None, "", <<>>, "ok")
    /\ UNCHANGED <<heap, elemType, list, abt, proc, svc, reads>>

\* service = ServiceSpec.from_config(config).  Each process holds its own
\* Argobots, whose objects are in the heap.
ServiceFromConfig ==
    /\ config.phase = "svc_sample"
    /\ \E r \in {service_from_config(config.sample)} :
          /\ heap' = heap \o r.objs
          /\ svc' = r.procs
          /\ last' = Call("service.from_config", 0, None, "", <<>>, r.err)
    /\ reads' = service_reads(config.sample)
    /\ config' = Conf("svc_resolved", config.cs, config.sample)
    /\ UNCHANGED <<elemType, list, abt, proc>>

NextSvcConf ==
    \/ ProcSpace \/ ProcSampleConfiguration \/ ProcFromConfig
    \/ ServiceSpace \/ ServiceSampleConfiguration \/ ServiceFromConfig

SpecSvcConf == InitSpace /\ [][NextSvcConf]_vars

\* The key h read from the process configuration f has every index below
\* the count of its dimension in f: num_pools for a pool index,
\* num_xstreams for an xstream index, the count of the family for a copy.
WithinCounts(h, f) ==
    /\ h[1] \in {"pools.kind", "xstreams.scheduler.pool_association_weight",
                 "providers.pool_association_weight"}
          => h[3] < f[Key("num_pools", -1, -1)]
    /\ h[1] \in {"xstreams.scheduler.type", "xstreams.scheduler.pool_association_weight"}
          => h[2] < f[Key("num_xstreams", -1, -1)]
    /\ h[1] \in {"providers.type", "providers.tags", "providers.config_resolver",
                 "providers.dependency_resolver", "providers.pool_association_weight"}
          => h[2] < f[Key("providers.count", -1, -1)]

\* C20: the resolution of a sample reads no per-index key whose index is
\* at or above the sampled count of its dimension (pool and weight keys:
\* num_pools; xstream keys: num_xstreams; provider keys: the count of the
\* provider family; process keys: the count of the process family), and
\* every key it reads is in the sample.
C20_NoReadBeyondCount ==
    /\ config.phase = "resolved" =>
          /\ reads \subseteq DOMAIN config.sample
          /\ last.op = "from_config" => last.err = "ok"
          /\ \A h \in reads : WithinCounts(h, config.sample)
    /\ config.phase = "svc_resolved" =>
          /\ reads \subseteq DOMAIN config.sample
          /\ last.err = "ok"
          /\ \A k \in reads :
                /\ k[1] < config.sample[ProcKey(-1, Key("processes.count", -1, -1))]
                /\ k[1] >= 0 => WithinCounts(k[2], ProcConfig(config.sample, k[1]))

\* A resolved service of one process out of two copies: the keys of the
\* second copy are in the sample and were not read, and neither were, in
\* the first copy, the kind of the second pool and the type of the first
\* provider, the process having one pool and no provider.
C20_Witness ==
    /\ config.phase = "svc_resolved"
    /\ last.err = "ok"
    /\ Len(svc) = 1
    /\ config.cs.count.hi = 2
    /\ ProcKey(0, Key("num_pools", -1, -1)) \in reads
    /\ ProcKey(1, Key("num_pools", -1, -1)) \in DOMAIN config.sample \ reads
    /\ config.sample[ProcKey(0, Key("num_pools", -1, -1))] = 1
    /\ ProcKey(0, Key("pools.kind", -1, 1)) \in config.cs.hps \ reads
    /\ config.sample[ProcKey(0, Key("providers.count", -1, -1))] = 0
    /\ ProcKey(0, Key("providers.type", 0, -1)) \in config.cs.hps \ reads

\* ------------------------------------------------ construction of ArgobotsSpec
\* The pools argument of ArgobotsSpec(...): left out, or the names of the
\* PoolSpec objects the caller built for it.
NoArg == [given |-> FALSE, names |-> <<>>]

PoolArgs ==
    {NoArg} \cup {[given |-> TRUE, names |-> ns] :
                     ns \in UNION {[1 .. n -> {"__primary__", "a"}] : n \in 0 .. 2}}

\* _default_pools_list(): one PoolSpec named __primary__.
default_pools_list == <<Obj("PoolSpec", "__primary__", "fifo_wait")>>

\* A default xstream whose scheduler holds a PoolSpec of its own, not the
\* member of the pool list: not what the code does.
default_xstreams_list_own_pool(objs, pools) ==
    [err |-> "ok",
     objs |-> <<Obj("PoolSpec", "__primary__", "fifo_wait"),
                XObj("__primary__", <<Len(objs) + 1>>)>>]

\* _default_xstreams_list(self): the pool is self.pools['__primary__'], or
\* self.pools[0] on KeyError (IndexError when there is no pool); one
\* XstreamSpec named __primary__ with SchedulerSpec(pools=[pool]).  objs are
\* the objects built so far, pools the positions of self._pools in them.
default_xstreams_list(objs, pools) ==
    LET hits == {i \in 1 .. Len(pools) : objs[pools[i]].name = "__primary__"}
    IN IF hits # {} THEN [err |-> "ok", objs |-> <<XObj("__primary__", <<pools[MinOf(hits)]>>)>>]
       ELSE IF Len(pools) = 0 THEN [err |-> "IndexError", objs |-> <<>>]
       ELSE [err |-> "ok", objs |-> <<XObj("__primary__", <<pools[1]>>)>>]

\* ArgobotsSpec(pools=arg): _pools is the argument or the default factory's
\* list, _xstreams the default factory's list over it; _check_pools then
\* rejects two pools of one name.
argobots_init(arg) ==
    LET pobjs == IF arg.given
                 THEN [i \in 1 .. Len(arg.names) |-> Obj("PoolSpec", arg.names[i], "fifo_wait")]
                 ELSE default_pools_list
        pools == [i \in 1 .. Len(pobjs) |-> i]
        x == default_xstreams_list(pobjs, pools)
    IN IF x.err # "ok" THEN Built(x.err, pobjs, <<>>, <<>>)
       ELSE IF Cardinality({pobjs[i].name : i \in 1 .. Len(pobjs)}) # Len(pobjs)
       THEN Built("ValueError", pobjs, <<>>, <<>>)
       ELSE Built("ok", pobjs \o x.objs, pools,
                  <<Len(pobjs) + Len(x.objs)>>)

\* abt = ArgobotsSpec() or ArgobotsSpec(pools=[...]); a constructor that
\* raises leaves no object.
ArgobotsConstruct ==
    /\ heap = <<>>
    /\ \E arg \in PoolArgs : \E r \in {argobots_init(arg)} :
          /\ heap' = IF r.err = "ok" THEN r.objs ELSE <<>>
          /\ abt' = [pools |-> r.pools, xstreams |-> r.xstreams]
          /\ last' = Call("ArgobotsSpec", 0, None, IF arg.given THEN "pools" ELSE "", <<>>, r.err)
    /\ UNCHANGED <<elemType, list, proc, svc, config, reads>>

\* abt.validate()
ArgobotsValidate ==
    /\ heap # <<>>
    /\ last' = Call("argobots.validate", 0, None, "", <<>>, abt_validate(abt))
    /\ UNCHANGED <<heap, elemType, list, abt, proc, svc, config, reads>>

NextDefault ==
    \/ ArgobotsConstruct
    \/ ArgobotsValidate
    \/ (heap # <<>> /\ AbtAddPool)
    \/ (heap # <<>> /\ AbtAddXstream)
    \/ (heap # <<>> /\ AbtDelItem)
    \/ (heap # <<>> /\ AbtSetPoolKind)

SpecDefault == InitSpace /\ [][NextDefault]_vars

\* C21: an Argobots constructed with no pools and no xstreams argument has
\* exactly one pool and one xstream, both named __primary__, the scheduler
\* of the xstream holds exactly that pool object, and validate() passes.
C21_DefaultArgobots ==
    (last.op = "ArgobotsSpec" /\ last.nm = "") =>
        /\ last.err = "ok"
        /\ Len(abt.pools) = 1
        /\ Len(abt.xstreams) = 1
        /\ heap[abt.pools[1]].cls = "PoolSpec"
        /\ heap[abt.pools[1]].name = "__primary__"
        /\ heap[abt.xstreams[1]].cls = "XstreamSpec"
        /\ heap[abt.xstreams[1]].name = "__primary__"
        /\ heap[abt.xstreams[1]].pools = <<abt.pools[1]>>
        /\ abt_validate(abt) = "ok"

\* The default Argobots, just constructed.
C21_Witness ==
    /\ last.op = "ArgobotsSpec"
    /\ last.nm = ""
    /\ last.err = "ok"
    /\ Len(heap) = 2

\* ------------------------------------------------------- the name attribute
\* An assignment that runs the validators of the field and stores the
\* value, as for a field without a setter of its own: not what the code
\* does for name.
setattr_name_validated(h, o, n) == [err |-> "ok", heap |-> [h EXCEPT ![o].name = n]]

\* entity.name = n.  The name field of PoolSpec, XstreamSpec, AbtIOSpec,
\* MonaSpec, SSGSpec, ProviderSpec and ClientSpec is declared with
\* on_setattr=attr.setters.frozen, which replaces the class's
\* _check_validators hook: the assignment raises FrozenAttributeError.
setattr_name(h, o, n) == [err |-> "FrozenAttributeError", heap |-> h]

SetName ==
    \E o \in Objects, n \in Names :
        \E r \in {setattr_name(heap, o, n)} :
            /\ heap' = r.heap
            /\ last' = Call("setname", 0, o, n, <<>>, r.err)
            /\ UNCHANGED <<list, elemType, abt, proc, svc, config, reads>>

NextNames == Next \/ SetName

SpecNames == Init /\ [][NextNames]_vars

\* C22: an entity keeps the name it was constructed with through every
\* operation, the operations of the list that holds it included, and an
\* assignment to its name fails.
C22_NameFrozen ==
    [][/\ \A o \in Objects : o <= Len(heap') /\ heap'[o].name = heap[o].name
       /\ last'.op = "setname" => last'.err # "ok"]_vars

\* An assignment to the name of a member of the list has just failed, the
\* name it asked for being another one.
C22_Witness ==
    /\ last.op = "setname"
    /\ last.ent \in Range(list)
    /\ last.nm # heap[last.ent].name
    /\ last.err = "FrozenAttributeError"

\* ------------------------------------------------------- identifier syntax
\* Name strings are sequences of characters here, drawn from a letter of
\* each case, the underscore, a digit, a character outside the class and
\* the newline.
Chars == {"a", "Z", "_", "1", "-", "\n"}

NameStrings == UNION {[1 .. n -> Chars] : n \in 0 .. MaxLen}

\* [a-zA-Z_]
IsLetter(c) == c \in {"a", "Z", "_"}

\* [a-zA-Z0-9_]
IsWord(c) == c \in {"a", "Z", "_", "1"}

\* _validate_object_name: re.match(r'[a-zA-Z_][a-zA-Z0-9_]*$', value), a
\* match from the start of the string in which $ stands at the end of the
\* string or just before a newline that ends it; NameError without a match.
validate_object_name(value) ==
    IF /\ Len(value) >= 1
       /\ IsLetter(value[1])
       /\ \E k \in 1 .. Len(value) :
             /\ \A i \in 2 .. k : IsWord(value[i])
             /\ \/ k = Len(value)
                \/ k = Len(value) - 1 /\ value[Len(value)] = "\n"
    THEN "ok" ELSE "NameError"

\* PoolSpec(name=n) or XstreamSpec(name=n): the validators of the name
\* field run in __init__, and the object exists when they pass.
EntityConstruct ==
    /\ heap = <<>>
    /\ \E cls \in {"PoolSpec", "XstreamSpec"}, n \in NameStrings :
          \E e \in {validate_object_name(n)} :
              /\ heap' = IF e = "ok" THEN <<Obj(cls, n, "fifo_wait")>> ELSE <<>>
              /\ last' = Call(cls, 0, None, n, <<>>, e)
    /\ UNCHANGED <<elemType, list, abt, proc, svc, config, reads>>

NextIdent == EntityConstruct

SpecIdent == InitSpace /\ [][NextIdent]_vars

\* The string matches [A-Za-z_][A-Za-z0-9_]* over its whole length.
IsIdentifier(s) ==
    /\ Len(s) >= 1
    /\ IsLetter(s[1])
    /\ \A i \in 2 .. Len(s) : IsWord(s[i])

\* C23: the construction of a Pool or an Xstream succeeds for every name
\* that matches [A-Za-z_][A-Za-z0-9_]* over its whole length, and for
\* every other string fails with NameError and produces no object.
C23_IdentifierSyntax ==
    last.op \in {"PoolSpec", "XstreamSpec"} =>
        IF IsIdentifier(last.nm)
        THEN last.err = "ok" /\ Len(heap) = 1 /\ heap[1].name = last.nm
        ELSE last.err = "NameError" /\ heap = <<>>

\* ------------------------------------------------------------------- Swim
SwimInts == {"period_length_ms", "suspect_timeout_periods", "subgroup_member_count"}

\* The defaults of the attrs fields of SwimSpec.
swim_default(f) ==
    IF f = "period_length_ms" THEN 0
    ELSE IF f = "disabled" THEN FALSE
    ELSE -1

\* SwimSpec(**kw): the keywords in given take the values of iv (the int
\* fields) and b (disabled), every other field its default.
swim_init(given, iv, b) ==
    [cls |-> "SwimSpec",
     period_length_ms |-> IF "period_length_ms" \in given
                          THEN iv["period_length_ms"] ELSE swim_default("period_length_ms"),
     suspect_timeout_periods |-> IF "suspect_timeout_periods" \in given
                                 THEN iv["suspect_timeout_periods"]
                                 ELSE swim_default("suspect_timeout_periods"),
     subgroup_member_count |-> IF "subgroup_member_count" \in given
                               THEN iv["subgroup_member_count"]
                               ELSE swim_default("subgroup_member_count"),
     disabled |-> IF "disabled" \in given THEN b ELSE swim_default("disabled")]

\* _swim_from_args(arg), the converter of SSGSpec.swim.  arg is "None",
\* "dict" or the position of a SwimSpec in h; the result is the objects
\* to allocate and the position of the SwimSpec.  A dict goes to
\* MargoSpec(**arg), which is no SwimSpec whatever it returns or raises:
\* TypeError.
swim_from_args(h, arg) ==
    IF arg \in 1 .. Len(h) THEN [err |-> "ok", objs |-> <<>>, swim |-> arg]
    ELSE IF arg = -2 THEN [err |-> "TypeError", objs |-> <<>>, swim |-> None]
    ELSE [err |-> "ok", objs |-> <<swim_init({"disabled"}, [f \in SwimInts |-> 0], TRUE)>>,
          swim |-> Len(h) + 1]

\* swim = SwimSpec(**kw)
SwimConstruct ==
    /\ heap = <<>>
    /\ \E given \in SUBSET (SwimInts \cup {"disabled"}), iv \in [SwimInts -> {-1, 1}],
          b \in BOOLEAN :
          /\ heap' = <<swim_init(given, iv, b)>>
          /\ last' = Call("SwimSpec", 0, 1, IF "disabled" \in given THEN "disabled" ELSE "",
                          <<>>, "ok")
    /\ UNCHANGED <<elemType, list, abt, proc, svc, config, reads>>

\* ssg = SSGSpec(name=n, pool=, bootstrap=k) without swim (arg -1), with
\* swim={...} (arg -2) or with swim=the SwimSpec built before.
SSGConstruct ==
    /\ Len(heap) <= 1
    /\ \E n \in AbtNames, k \in {"init", "join"}, arg \in {-1, -2} \cup 1 .. Len(heap) :
          \E r \in {swim_from_args(heap, arg)} :
              /\ heap' = IF r.err = "ok"
                         THEN (heap \o r.objs)
                              \o <<[cls |-> "SSGSpec", name |-> n, kind |-> k, swim |-> r.swim]>>
                         ELSE heap
              /\ last' = Call("SSGSpec", arg, IF r.err = "ok" THEN Len(heap \o r.objs) + 1 ELSE None,
                              n, <<>>, r.err)
    /\ UNCHANGED <<elemType, list, abt, proc, svc, config, reads>>

NextSwim == SwimConstruct \/ SSGConstruct

SpecSwim == InitSpace /\ [][NextSwim]_vars

\* C24: a Swim created without a disabled value is disabled, both
\* SwimSpec(...) without the disabled keyword and the Swim of an SSG
\* constructed without a swim argument.
C24_SwimDisabledByDefault ==
    /\ (last.op = "SwimSpec" /\ last.nm = "") => heap[last.ent].disabled = TRUE
    /\ (last.op = "SSGSpec" /\ last.key = -1) =>
          /\ last.err = "ok"
          /\ heap[heap[last.ent].swim].disabled = TRUE

\* ---------------------------------------------------------- ProviderManager
\* The manager's providers are records (name, type, provider_id) kept in
\* the variable list, in registration order.
Provider(n, t, id) == [name |-> n, type |-> t, provider_id |-> id]

\* A lookup's outcome: the provider found in ret, or an exception.
Found(e, p) == [err |-> e, ret |-> p]

\* self._internal.providers[i]: the i-th provider, BedrockException when i
\* is not an index.
internal_providers(ps, i) ==
    IF i \in 0 .. Len(ps) - 1 THEN Found("ok", <<ps[i + 1]>>)
    ELSE Found("BedrockException", <<>>)

\* self._internal.lookup_provider(locator): the provider of that name,
\* BedrockException when there is none.
lookup_provider(ps, locator) ==
    LET hits == {k \in 1 .. Len(ps) : ps[k].name = locator}
    IN IF hits = {} THEN Found("BedrockException", <<>>)
       ELSE Found("ok", <<ps[MinOf(hits)]>>)

\* self._internal.add_provider_from_json(info): registered last, the name
\* being new.
add_provider_from_json(ps, p) ==
    IF \E k \in 1 .. Len(ps) : ps[k].name = p.name THEN Res(ps, "BedrockException")
    ELSE Res(Append(ps, p), "ok")

\* self._internal.deregister_provider(key)
deregister_provider(ps, key) ==
    IF \A k \in 1 .. Len(ps) : ps[k].name # key THEN Res(ps, "BedrockException")
    ELSE Res(SelectSeq(ps, LAMBDA p : p.name # key), "ok")

\* A key of the manager: an int or a str.
IntKey(i) == [int |-> TRUE, i |-> i, n |-> ""]

StrKey(n) == [int |-> FALSE, i |-> 0, n |-> n]

\* A __getitem__ that takes the name of the provider after the one asked
\* for: not what the code does.
manager_getitem_next(ps, key) ==
    IF key.int
    THEN LET r == internal_providers(ps, key.i + 1)
         IN IF r.err # "ok" THEN r ELSE lookup_provider(ps, r.ret[1].name)
    ELSE lookup_provider(ps, key.n)

\* ProviderManager.__getitem__(key): an int key is replaced by
\* providers[key].name, then lookup(key).
manager_getitem(ps, key) ==
    IF key.int
    THEN LET r == internal_providers(ps, key.i)
         IN IF r.err # "ok" THEN r ELSE lookup_provider(ps, r.ret[1].name)
    ELSE lookup_provider(ps, key.n)

\* ProviderManager.__contains__(key): True when __getitem__(key) returns,
\* False when it raises BedrockException.
manager_contains(ps, key) == manager_getitem(ps, key).err # "BedrockException"

InitMgr ==
    /\ heap = <<>>
    /\ list = <<>>
    /\ last = Call("init", 0, None, "", <<>>, "ok")
    /\ elemType = "Provider"
    /\ abt = NoAbt
    /\ proc = NoProc
    /\ svc = NoSvc
    /\ config = NoConfig
    /\ reads = {}

\* manager.create(name=n, type=t, provider_id=id, pool=)
MgrCreate ==
    \E n \in Names, t \in Types, id \in 1 .. MaxEnt :
        \E r \in {add_provider_from_json(list, Provider(n, t, id))} :
            /\ Len(r.list) <= MaxEnt
            /\ list' = r.list
            /\ last' = Call("create", 0, None, n, <<>>, r.err)
            /\ UNCHANGED <<heap, elemType, abt, proc, svc, config, reads>>

\* del manager[n]
MgrDelete ==
    \E n \in Names :
        \E r \in {deregister_provider(list, n)} :
            /\ list' = r.list
            /\ last' = Call("delitem", 0, None, n, <<>>, r.err)
            /\ UNCHANGED <<heap, elemType, abt, proc, svc, config, reads>>

\* manager[i] and manager[n]
MgrGetItem ==
    \E key \in {IntKey(i) : i \in 0 .. MaxEnt} \cup {StrKey(n) : n \in Names} :
        \E r \in {manager_getitem(list, key)} :
            /\ last' = Call(IF key.int THEN "getitem_int" ELSE "getitem_str",
                            key.i, None, key.n, r.ret, r.err)
            /\ UNCHANGED <<heap, list, elemType, abt, proc, svc, config, reads>>

\* n in manager
MgrContains ==
    \E n \in Names :
        /\ last' = Call("contains", 0, None, n, <<manager_contains(list, StrKey(n))>>, "ok")
        /\ UNCHANGED <<heap, list, elemType, abt, proc, svc, config, reads>>

NextMgr == MgrCreate \/ MgrDelete \/ MgrGetItem \/ MgrContains

SpecMgr == InitMgr /\ [][NextMgr]_vars

PoolRefs2 == {IntKey(i) : i \in 0 .. 1} \cup {StrKey(n) : n \in AbtNames}

\* A lookup that takes the first pool whatever name is asked for: not what
\* the code does.
resolve_pool_first(r, ref) ==
    IF ref.int
    THEN (IF ref.i \in 0 .. Len(r.pools) - 1 THEN Found("ok", r.pools[ref.i + 1])
          ELSE Found("IndexError", None))
    ELSE IF Len(r.pools) = 0 THEN Found("KeyError", None)
    ELSE Found("ok", r.pools[1])

\* abt_spec.pools[ref] on the Argobots r that from_dict has just built: the
\* member at an int index (IndexError), the member named by a str
\* (KeyError).
resolve_pool(r, ref) ==
    IF ref.int
    THEN (IF ref.i \in 0 .. Len(r.pools) - 1 THEN Found("ok", r.pools[ref.i + 1])
          ELSE Found("IndexError", None))
    ELSE LET hits == {k \in 1 .. Len(r.pools) : r.objs[k].name = ref.n}
         IN IF hits = {} THEN Found("KeyError", None)
            ELSE Found("ok", r.pools[MinOf(hits)])

\* The documents of a process: the Argobots (pools by name, one xstream
\* with the names of its scheduler's pools), the two pools of the Margo,
\* the entries (name, pool) of one of the lists abt_io, ssg, mona and
\* providers, and the bedrock section, which may be left out.
ProcDocs ==
    [pools : UNION {[1 .. n -> AbtNames] : n \in 1 .. 2},
     sched : UNION {[1 .. n -> AbtNames] : n \in 1 .. 2},
     rpc_pool : PoolRefs2, progress_pool : PoolRefs2,
     which : {"abt_io", "ssg", "mona", "providers"},
     entries : UNION {[1 .. n -> PoolRefs2] : n \in 0 .. MaxEnt},
     bedrock : PoolRefs2 \cup {[int |-> FALSE, i |-> 0, n |-> ""]}]

\* The Argobots section of the document d.
ArgobotsDoc(d) ==
    [pools |-> [i \in 1 .. Len(d.pools) |-> [name |-> d.pools[i], kind |-> "fifo_wait"]],
     xstreams |-> <<[name |-> "x", type |-> "basic_wait", pools |-> d.sched]>>]

\* ProcSpec.from_dict(data): MargoSpec.from_dict builds the Argobots with
\* ArgobotsSpec.from_dict and takes rpc_pool and progress_pool from its
\* pools; each entry of abt_io, ssg, mona and providers and the bedrock
\* section take their pool from margo.argobots.pools; without a bedrock
\* section, bedrock = {} fails the instance_of(BedrockSpec) validator.
proc_from_dict(d) ==
    LET r == abt_from_dict(ArgobotsDoc(d))
        fail(e) == [err |-> e, objs |-> <<>>, pools |-> <<>>, xstreams |-> <<>>,
                    proc |-> NoProc]
        rpc == resolve_pool(r, d.rpc_pool)
        prg == resolve_pool(r, d.progress_pool)
        ent == [k \in 1 .. Len(d.entries) |-> resolve_pool(r, d.entries[k])]
        bed == resolve_pool(r, d.bedrock)
        e == FirstErr(<<rpc.err, prg.err>> \o [k \in 1 .. Len(ent) |-> ent[k].err])
    IN IF r.err # "ok" THEN fail(r.err)
       ELSE IF e # "ok" THEN fail(e)
       ELSE IF d.bedrock.n = "" /\ ~d.bedrock.int THEN fail("TypeError")
       ELSE IF bed.err # "ok" THEN fail(bed.err)
       ELSE [err |-> "ok", objs |-> r.objs, pools |-> r.pools, xstreams |-> r.xstreams,
             proc |-> [DefaultProc([pools |-> r.pools, xstreams |-> r.xstreams]) EXCEPT
                          !.rpc_pool = rpc.ret, !.progress_pool = prg.ret,
                          !.bedrock = bed.ret,
                          ![d.which] = [k \in 1 .. Len(ent) |->
                                           [name |-> PoolNames[k], type |-> "A",
                                            pool |-> ent[k].ret, deps |-> <<>>]]]]

\* proc = ProcSpec.from_dict(d); a from_dict that raises leaves nothing.
ProcFromDict ==
    /\ config.phase = "none"
    /\ \E d \in ProcDocs : \E r \in {proc_from_dict(d)} :
          /\ heap' = r.objs
          /\ abt' = [pools |-> r.pools, xstreams |-> r.xstreams]
          /\ proc' = r.proc
          /\ config' = Conf("doc", d, <<>>)
          /\ last' = Call("from_dict", 0, None, "", <<>>, r.err)
    /\ UNCHANGED <<elemType, list, svc, reads>>

NextDoc == ProcFromDict

SpecDoc == InitSpace /\ [][NextDoc]_vars

\* The pool p of the result answers the reference ref of the document: it
\* is a member of the result's pool list, of the name or at the index
\* asked for.
Answers(p, ref) ==
    /\ p \in Range(abt.pools)
    /\ IF ref.int THEN p = abt.pools[ref.i + 1] ELSE heap[p].name = ref.n

\* C26: in the result of ProcSpec.from_dict, every pool reference (the rpc
\* and progress pools of the Margo, the pools of each xstream's scheduler,
\* the pool of each abt_io, ssg, mona and provider entry and of bedrock) is
\* the member of the result's own margo.argobots pool list that the
\* document names.
C26_PoolsResolvedInOwnArgobots ==
    (last.op = "from_dict" /\ last.err = "ok") =>
        LET d == config.cs
        IN /\ Answers(proc.rpc_pool, d.rpc_pool)
           /\ Answers(proc.progress_pool, d.progress_pool)
           /\ Answers(proc.bedrock, d.bedrock)
           /\ Len(proc[d.which]) = Len(d.entries)
           /\ \A k \in 1 .. Len(d.entries) : Answers(proc[d.which][k].pool, d.entries[k])
           /\ \A x \in 1 .. Len(abt.xstreams) :
                 /\ Len(heap[abt.xstreams[x]].pools) = Len(d.sched)
                 /\ \A j \in 1 .. Len(d.sched) :
                       Answers(heap[abt.xstreams[x]].pools[j], StrKey(d.sched[j]))

\* A process of two pools resolved from a document that names the second
\* pool for the rpc pool, for bedrock and for a provider.
C26_Witness ==
    /\ last.op = "from_dict"
    /\ last.err = "ok"
    /\ Len(abt.pools) = 2
    /\ proc.rpc_pool = abt.pools[2]
    /\ proc.bedrock = abt.pools[2]
    /\ Len(proc.providers) >= 1
    /\ proc.providers[1].pool = abt.pools[2]
    /\ ~config.cs.rpc_pool.int

\* ------------------------------------------------- the order of a scheduler
\* The space of InitResolve with weights 0, 1 and 2: one that is not
\* positive and two positive ones that differ.
InitWeighted ==
    /\ heap = <<>>
    /\ abt = NoAbt
    /\ config = Conf("space",
                     argobots_space(RangeArg(1, MaxPools), RangeArg(1, MaxXs), {0, 1, 2}),
                     <<>>)
    /\ reads = {}
    /\ last = Call("space", 0, None, "", <<>>, "ok")
    /\ elemType = "PoolSpec"
    /\ list = <<>>
    /\ proc = NoProc
    /\ svc = NoSvc

SpecWeighted == InitWeighted /\ [][NextResolve]_vars

\* The weight of pool i for xstream j in the sample.
W(j, i) == config.sample[WeightKey(j, i)]

\* The pool indices of the scheduler of xstream j in the resolved Argobots.
Sched(j) ==
    LET sp == heap[abt.xstreams[j + 1]].pools
    IN [k \in 1 .. Len(sp) |-> CHOOSE i \in 0 .. Len(abt.pools) - 1 : abt.pools[i + 1] = sp[k]]

\* The pools of positive weight for xstream j.
Positive(j) == {i \in 0 .. NumPools - 1 : W(j, i) > 0}

\* The pools xstream j selects: those of positive weight, or the one of
\* greatest (weight, index) when there is none.
Selected(j) ==
    IF Positive(j) # {} THEN Positive(j)
    ELSE {i \in 0 .. NumPools - 1 :
             \A i2 \in 0 .. NumPools - 1 : PairLeq(<<W(j, i2), i2>>, <<W(j, i), i>>)}

\* The pools no xstream selects that fall to xstream j: it has the greatest
\* (weight, index of xstream) for them.
Leftover(j) ==
    {i \in 0 .. NumPools - 1 :
        /\ \A j2 \in 0 .. NumXstreams - 1 : i \notin Selected(j2)
        /\ \A j2 \in 0 .. NumXstreams - 1 : PairLeq(<<W(j2, i), j2>>, <<W(j, i), j>>)}

index(l, x) ==
    LET i == list_index(l, x)
    IN IF i < 0 THEN [err |-> "ValueError", ret |-> i] ELSE [err |-> "ok", ret |-> i]

\* index with a string argument: the name is taken as arg.name, an
\* attribute a str does not have, before any search is made.
index_str(l, n) == [err |-> "AttributeError", ret |-> 0 - 1]

\* index(spec); the position returned is kept in last.key.
IndexOp ==
    \E x \in Objects :
        LET r == index(list, x)
        IN /\ last' = Call("index", r.ret, x, "", <<>>, r.err)
           /\ UNCHANGED <<heap, elemType, list, abt, proc, svc, config, reads>>

\* index(name); the position returned is kept in last.key.
IndexName ==
    \E n \in Names :
        LET r == index_str(list, n)
        IN /\ last' = Call("indexname", r.ret, None, n, <<>>, r.err)
           /\ UNCHANGED <<heap, elemType, list, abt, proc, svc, config, reads>>

NextIndex == Next \/ IndexOp \/ IndexName

SpecIndex == Init /\ [][NextIndex]_vars

\* C28: index(x) returns the position of x when x is a member entity, the
\* position of the member of that name when x is the name of a member (so
\* that list[index(name)] is that member), and raises NameError when x is a
\* name no member has.
C28_IndexOfMemberOrName ==
    /\ (last.op = "index" /\ last.ent \in Range(list)) =>
           /\ last.err = "ok"
           /\ last.key \in 0 .. Len(list) - 1
           /\ list[last.key + 1] = last.ent
    /\ (last.op = "indexname" /\ Named(list, last.nm) # {}) =>
           /\ last.err = "ok"
           /\ last.key \in 0 .. Len(list) - 1
           /\ NameOf(list[last.key + 1]) = last.nm
    /\ (last.op = "indexname" /\ Named(list, last.nm) = {}) =>
           last.err = "NameError"

\* ------------------------------------------ ServiceSpec: to_dict, from_dict
\* ProviderSpec.to_dict: the pool goes out as its name.
provider_to_dict(p) ==
    [name |-> p.name, type |-> p.type, pool |-> NameOf(p.pool), deps |-> p.deps]

\* ProviderSpec.from_dict(data, abt_spec): the pool is looked up by name.
provider_of_dict(d, a) ==
    LET r == getitem_str(a.pools, d.pool)
    IN IF r.err # "ok" THEN [err |-> r.err, ret |-> None]
       ELSE [err |-> "ok",
             ret |-> [name |-> d.name, type |-> d.type, pool |-> r.ret, deps |-> d.deps]]

\* ProcSpec.to_dict: every pool goes out as its name, every list as the
\* list of its members' dictionaries.
proc_to_dict(p) ==
    [progress_pool |-> NameOf(p.progress_pool), rpc_pool |-> NameOf(p.rpc_pool),
     abt_io |-> <<>>, mona |-> <<>>, ssg |-> <<>>,
     libraries |-> p.libraries,
     providers |-> [j \in 1 .. Len(p.providers) |-> provider_to_dict(p.providers[j])],
     clients |-> <<>>,
     bedrock |-> NameOf(p.bedrock)]

\* ProcSpec.from_dict on such a dictionary, a being the Argobots rebuilt
\* from its margo section.
proc_of_dict(d, a) ==
    LET rpc == getitem_str(a.pools, d.rpc_pool)
        prg == getitem_str(a.pools, d.progress_pool)
        bdr == getitem_str(a.pools, d.bedrock)
        prv == [j \in 1 .. Len(d.providers) |-> provider_of_dict(d.providers[j], a)]
        e == FirstErr(<<rpc.err, prg.err>> \o [j \in 1 .. Len(prv) |-> prv[j].err]
                      \o <<bdr.err>>)
    IN IF e # "ok" THEN [err |-> e, ret |-> None]
       ELSE [err |-> "ok",
             ret |-> [progress_pool |-> prg.ret, rpc_pool |-> rpc.ret,
                      abt_io |-> <<>>, mona |-> <<>>, ssg |-> <<>>,
                      libraries |-> d.libraries,
                      providers |-> [j \in 1 .. Len(prv) |-> prv[j].ret],
                      clients |-> <<>>,
                      bedrock |-> bdr.ret]]

\* The keyword arguments ProcSpec's constructor takes.
ProcFields ==
    {"margo", "abt_io", "ssg", "mona", "libraries", "providers", "clients", "bedrock"}

\* ProcSpec(**kwargs) with these keywords: a keyword that is not a field is
\* a TypeError.
proc_init(keywords) == IF keywords \subseteq ProcFields THEN "ok" ELSE "TypeError"

\* ServiceSpec.to_dict
service_to_dict(sv) == [processes |-> [i \in 1 .. Len(sv) |-> proc_to_dict(sv[i])]]

\* ServiceSpec.from_dict: each process is rebuilt in order, then the result
\* is constructed as ProcSpec(processes=processes).
service_from_dict(data) ==
    LET ps == [i \in 1 .. Len(data.processes) |-> proc_of_dict(data.processes[i], abt)]
        e == FirstErr([i \in 1 .. Len(ps) |-> ps[i].err] \o <<proc_init({"processes"})>>)
    IN IF e # "ok" THEN [err |-> e, ret |-> <<>>]
       ELSE [err |-> "ok", ret |-> [i \in 1 .. Len(ps) |-> ps[i].ret]]

\* ServiceSpec.to_json: the JSON text of the list of processes alone.
service_to_json(sv) == service_to_dict(sv).processes

\* ServiceSpec.from_json: the list is put back under 'processes'.
service_from_json(js) == service_from_dict([processes |-> js])

\* ServiceSpec.from_dict(service.to_dict()); the result is kept in config.
SvcFromDict ==
    LET r == service_from_dict(service_to_dict(svc))
    IN /\ last' = Call("from_dict", 0, None, "", <<>>, r.err)
       /\ config' = Conf("from_dict", r.ret, <<>>)
       /\ UNCHANGED <<heap, elemType, list, abt, proc, svc, reads>>

\* ServiceSpec.from_json(service.to_json()); the result is kept in config.
SvcFromJson ==
    LET r == service_from_json(service_to_json(svc))
    IN /\ last' = Call("from_json", 0, None, "", <<>>, r.err)
       /\ config' = Conf("from_json", r.ret, <<>>)
       /\ UNCHANGED <<heap, elemType, list, abt, proc, svc, reads>>

NextSvcDoc == NextSvc \/ SvcFromDict \/ SvcFromJson

SpecSvcDoc == InitSvc /\ [][NextSvcDoc]_vars

\* C29: for any Service, from_dict(to_dict()) and from_json(to_json())
\* succeed and return a Service whose processes correspond one to one, in
\* order, to those of the original.
C29_ServiceRoundTrip ==
    last.op \in {"from_dict", "from_json"} =>
        /\ last.err = "ok"
        /\ Len(config.cs) = Len(svc)
        /\ \A i \in 1 .. Len(svc) : proc_to_dict(config.cs[i]) = proc_to_dict(svc[i])

\* ------------------------------------------------ failures and the list
\* C30: an operation on the list that fails (setitem with an integer or a
\* slice, append, insert, extend, add, deletion by index or by name, remove)
\* leaves the content and the order of the list as they were.
C30_FailureLeavesListUnchanged ==
    [][last'.err # "ok" => list' = list]_vars

====
